---- MODULE Spec2Model ----
(***************************************************************************)
(* Verification model of polyfem's sparse-matrix assembly cache            *)
(* (SpareMatrixCache, src/src/utils/MatrixUtils.cpp) and of the nonlinear  *)
(* objective NLProblem (src/src/solver/NLProblem.cpp).                     *)
(*                                                                         *)
(* Indices are 0-based as in the C++ code; TLA+ sequences are 1-based, so  *)
(* element k of a C++ array v is v[k + 1] here.  Scalars are integers.     *)
(***************************************************************************)
EXTENDS Integers, Sequences, FiniteSets, TLC

(***************************************************************************)
(* Bounds of the model.                                                    *)
(***************************************************************************)
\* cache dimensions explored (a cache holds a size_ x size_ matrix)
Sizes == {1, 2}

\* largest dimension explored
MaxSize == CHOOSE n \in Sizes : \A m \in Sizes : m <= n
\* longest add_value sequence of one accumulation round
MaxAdds == 3

\* values passed to add_value (opposite signs, so that sums can cancel)
AddVals == {-1, 1, 2}

(***************************************************************************)
(* Generic helpers.                                                        *)
(***************************************************************************)
\* the elements of a finite set of integers in ascending order: element x
\* stands at the position given by the number of elements not above it
SortedSeq(S) ==
    <<>> \o [k \in 1..Cardinality(S) |->
                CHOOSE x \in S : Cardinality({ y \in S : y <= x }) = k]

RECURSIVE SeqSum(_)
\* sum of a sequence of integers
SeqSum(s) == IF s = <<>> THEN 0 ELSE Head(s) + SeqSum(Tail(s))

\* std::fill(v.begin(), v.end(), 0)
FillZero(v) == [k \in 1..Len(v) |-> 0]

\* std::vector::resize(n): keeps the first n elements, value-initialises the rest
Resize(v, n) == [k \in 1..n |-> IF k <= Len(v) THEN v[k] ELSE 0]

(***************************************************************************)
(* StiffnessMatrix = Eigen::SparseMatrix<double>, column-major compressed  *)
(* storage: outer[c + 1] is the offset of column c's first stored entry,   *)
(* inner[k] the row of the k-th stored entry, vals[k] its value.  A stored *)
(* entry may hold the value 0 (a structural non-zero).                     *)
(***************************************************************************)
\* Eigen::Triplet<double>(i, j, value)
Triplet(i, j, v) == [row |-> i, col |-> j, value |-> v]

\* resize(n, n) / setZero(): an n x n matrix with no stored entry
ZeroMat(n) == [rows |-> n, cols |-> n, outer |-> [k \in 1..(n + 1) |-> 0],
               inner |-> <<>>, vals |-> <<>>]

\* SparseMatrix::nonZeros()
nonZeros(m) == Len(m.inner)

\* column of the k-th stored entry (k is 1-based)
ColOf(m, k) == CHOOSE c \in 0..(m.cols - 1) : m.outer[c + 1] < k /\ k <= m.outer[c + 2]

\* the structural positions <<row, col>> of a matrix
Positions(m) ==
    UNION { { <<m.inner[k], c>> : k \in (m.outer[c + 1] + 1)..m.outer[c + 2] } :
            c \in 0..(m.cols - 1) }

\* SparseMatrix::coeff(r, c): the stored value, 0 where nothing is stored
Coeff(m, r, c) ==
    LET ks == { k \in (m.outer[c + 1] + 1)..m.outer[c + 2] : m.inner[k] = r }
    IN IF ks = {} THEN 0 ELSE m.vals[CHOOSE k \in ks : TRUE]

\* The compressed matrix of the positions P whose column-major keys
\* (col * n + row) are listed in ascending order in keys
CompressedByKeys(n, P, f, keys) ==
    [rows |-> n, cols |-> n,
     outer |-> <<>> \o [k \in 1..(n + 1) |-> Cardinality({ p \in P : p[2] < k - 1 })],
     inner |-> <<>> \o [k \in 1..Len(keys) |-> keys[k] % n],
     vals |-> <<>> \o [k \in 1..Len(keys) |-> f[<<keys[k] % n, keys[k] \div n>>]]]

\* The compressed n x n matrix storing exactly the positions P, with value
\* f[p] at p: entries ordered by column, then by row.
Compressed(n, P, f) == CompressedByKeys(n, P, f, SortedSeq({ p[2] * n + p[1] : p \in P }))

\* SparseMatrix::setFromTriplets + makeCompressed: duplicates are summed
setFromTriplets(n, entries) ==
    LET P == { <<entries[k].row, entries[k].col>> : k \in 1..Len(entries) }
        f == [p \in P |->
                SeqSum([k \in 1..Len(entries) |->
                          IF <<entries[k].row, entries[k].col>> = p
                          THEN entries[k].value ELSE 0])]
    IN Compressed(n, P, f)

\* a + b for two sparse matrices of the same size: the union of the two
\* structures, values added
MatAdd(a, b) ==
    LET P == Positions(a) \cup Positions(b)
        f == [p \in P |-> Coeff(a, p[1], p[2]) + Coeff(b, p[1], p[2])]
    IN Compressed(a.rows, P, f)

\* Eigen::Map<const StiffnessMatrix>(rows, cols, nnz, outer, inner, values)
MapMat(n, nnz, outer, inner, values) ==
    [rows |-> n, cols |-> n, outer |-> outer,
     inner |-> SubSeq(inner, 1, nnz), vals |-> SubSeq(values, 1, nnz)]

\* no stored entry of m holds a non-zero value
AllZero(m) == \A k \in 1..Len(m.vals) : m.vals[k] = 0

(***************************************************************************)
(* SpareMatrixCache.  A cache is a record of the class's data members.     *)
(* mapping_[i + 1] is the list of <<column, slot>> pairs of row i.         *)
(***************************************************************************)
\* SpareMatrixCache(const size_t size)
SpareMatrixCache(size) ==
    [size_ |-> size, mapping_ |-> <<>>, inner_index_ |-> <<>>, outer_index_ |-> <<>>,
     values_ |-> <<>>, entries_ |-> <<>>, tmp_ |-> ZeroMat(size), mat_ |-> ZeroMat(size)]

\* SpareMatrixCache(const SpareMatrixCache &other)
CopyCache(other) ==
    [size_ |-> other.size_, mapping_ |-> other.mapping_,
     inner_index_ |-> other.inner_index_, outer_index_ |-> other.outer_index_,
     values_ |-> FillZero(other.values_), entries_ |-> <<>>,
     tmp_ |-> ZeroMat(other.size_), mat_ |-> ZeroMat(other.size_)]

\* mapping_.empty(): the cache is in the cold phase
IsCold(c) == c.mapping_ = <<>>

\* init(const size_t size): the assertion it starts with
init_size_ok(c, size) == IsCold(c) \/ c.size_ = size

\* init(const size_t size)
init_size(c, size) ==
    [c EXCEPT !.size_ = size, !.tmp_ = ZeroMat(size), !.mat_ = ZeroMat(size)]

\* init(const SpareMatrixCache &other)
init_other(c, other) ==
    [c EXCEPT !.size_ = other.size_, !.mapping_ = other.mapping_,
              !.inner_index_ = other.inner_index_, !.outer_index_ = other.outer_index_,
              !.values_ = FillZero(Resize(c.values_, Len(other.values_))),
              !.tmp_ = ZeroMat(other.size_), !.mat_ = ZeroMat(other.size_)]

\* set_zero() that also drops the cached structure
set_zero_forget(c) ==
    [c EXCEPT !.tmp_ = ZeroMat(c.size_), !.mat_ = ZeroMat(c.size_),
              !.values_ = <<>>, !.mapping_ = <<>>,
              !.inner_index_ = <<>>, !.outer_index_ = <<>>]

\* set_zero()
set_zero(c) ==
    [c EXCEPT !.tmp_ = ZeroMat(c.size_), !.mat_ = ZeroMat(c.size_),
              !.values_ = FillZero(c.values_)]

\* add_value, warm phase: the slots of row i whose column is j
Slots(c, i, j) ==
    LET map == c.mapping_[i + 1]
    IN { map[k][2] : k \in { k \in 1..Len(map) : map[k][1] = j } }

\* add_value without the final assert(found)
add_value_unchecked(c, i, j) == TRUE

\* add_value: the final assert(found) (and the bound assertion on the slot)
add_value_ok(c, i, j) ==
    IsCold(c) \/ (Slots(c, i, j) # {} /\ \A s \in Slots(c, i, j) : s < Len(c.values_))

\* add_value with the warm-phase accumulation written as an assignment
\* (values_[p.second] = value)
add_value_overwrite(c, i, j, value) ==
    IF IsCold(c)
    THEN [c EXCEPT !.entries_ = Append(c.entries_, Triplet(i, j, value))]
    ELSE LET map == c.mapping_[i + 1]
             hit(s) == \E k \in 1..Len(map) : map[k][1] = j /\ map[k][2] = s
         IN [c EXCEPT !.values_ = [k \in 1..Len(c.values_) |->
                                     IF hit(k - 1) THEN value ELSE c.values_[k]]]

\* add_value(i, j, value)
add_value(c, i, j, value) ==
    IF IsCold(c)
    THEN [c EXCEPT !.entries_ = Append(c.entries_, Triplet(i, j, value))]
    ELSE LET map == c.mapping_[i + 1]
             hits(s) == Cardinality({ k \in 1..Len(map) : map[k][1] = j /\ map[k][2] = s })
         IN [c EXCEPT !.values_ = [k \in 1..Len(c.values_) |->
                                     c.values_[k] + hits(k - 1) * value]]

\* prune() without entries_.clear()
prune_keep_entries(c) ==
    IF IsCold(c)
    THEN [c EXCEPT !.tmp_ = ZeroMat(c.size_),
                   !.mat_ = MatAdd(c.mat_, setFromTriplets(c.size_, c.entries_))]
    ELSE c

\* prune()
prune(c) ==
    IF IsCold(c)
    THEN [c EXCEPT !.tmp_ = ZeroMat(c.size_),
                   !.mat_ = MatAdd(c.mat_, setFromTriplets(c.size_, c.entries_)),
                   !.entries_ = <<>>]
    ELSE c

RECURSIVE BuildMapping(_, _, _, _)
\* get_matrix's double loop over the columns i and the stored entries ii of
\* each column: entry number `index` (0-based) of row j = inner[ii] and
\* column i appends (i, index) to mapping_[j].
BuildMapping(m, k, index, mapping) ==
    IF k > nonZeros(m) THEN mapping
    ELSE LET j == m.inner[k]
             i == ColOf(m, k)
         IN BuildMapping(m, k + 1, index + 1,
                         [mapping EXCEPT ![j + 1] = Append(@, <<i, index>>)])

\* get_matrix without the final std::fill(values_.begin(), values_.end(), 0)
get_matrix_keep_values(c, compute_mapping) ==
    LET p == prune(c)
    IN IF IsCold(p)
       THEN IF compute_mapping
            THEN [p EXCEPT !.values_ = FillZero(Resize(p.values_, nonZeros(p.mat_))),
                           !.inner_index_ = p.mat_.inner,
                           !.outer_index_ = p.mat_.outer,
                           !.mapping_ = BuildMapping(p.mat_, 1, 0,
                                                     [r \in 1..p.mat_.rows |-> <<>>])]
            ELSE p
       ELSE [p EXCEPT !.mat_ = MapMat(p.size_, Len(p.values_), p.outer_index_,
                                      p.inner_index_, p.values_)]

\* get_matrix that computes the mapping whatever compute_mapping is
get_matrix_mapping_always(c, compute_mapping) ==
    LET p == prune(c)
    IN IF IsCold(p)
       THEN [p EXCEPT !.values_ = FillZero(Resize(p.values_, nonZeros(p.mat_))),
                      !.inner_index_ = p.mat_.inner,
                      !.outer_index_ = p.mat_.outer,
                      !.mapping_ = BuildMapping(p.mat_, 1, 0,
                                                [r \in 1..p.mat_.rows |-> <<>>])]
       ELSE [p EXCEPT !.mat_ = MapMat(p.size_, Len(p.values_), p.outer_index_,
                                      p.inner_index_, p.values_),
                      !.values_ = FillZero(p.values_)]

\* get_matrix(compute_mapping): the cache after the call; the matrix
\* returned is the mat_ of that cache
get_matrix(c, compute_mapping) ==
    LET p == prune(c)
    IN IF IsCold(p)
       THEN IF compute_mapping
            THEN [p EXCEPT !.values_ = FillZero(Resize(p.values_, nonZeros(p.mat_))),
                           !.inner_index_ = p.mat_.inner,
                           !.outer_index_ = p.mat_.outer,
                           !.mapping_ = BuildMapping(p.mat_, 1, 0,
                                                     [r \in 1..p.mat_.rows |-> <<>>])]
            ELSE [p EXCEPT !.values_ = FillZero(p.values_)]
       ELSE [p EXCEPT !.mat_ = MapMat(p.size_, Len(p.values_), p.outer_index_,
                                      p.inner_index_, p.values_),
                      !.values_ = FillZero(p.values_)]

\* get_matrix, warm phase: &inner_index_[0] and &values_[0] index an empty
\* vector when the cached pattern is empty
get_matrix_indexes_empty(c) == ~IsCold(c) /\ Len(c.values_) = 0

\* operator+ / operator+=, both operands warm: the three size assertions
merge_ok(c, o) ==
    (IsCold(c) \/ IsCold(o))
    \/ (/\ Len(c.inner_index_) = Len(o.inner_index_)
        /\ Len(c.outer_index_) = Len(o.outer_index_)
        /\ Len(c.values_) = Len(o.values_))

\* operator+(const SpareMatrixCache &a) const, called on c
plus(c, a) ==
    LET out == CopyCache(a)
    IN IF IsCold(a) \/ IsCold(c)
       THEN [out EXCEPT !.mat_ = MatAdd(a.mat_, c.mat_)]
       ELSE [out EXCEPT !.values_ = [k \in 1..Len(a.values_) |-> a.values_[k] + c.values_[k]]]

\* operator+= with the warm-phase sum written as an assignment
\* (values_[i] = o.values_[i])
plus_eq_assign(c, o) ==
    IF IsCold(c) \/ IsCold(o)
    THEN [c EXCEPT !.mat_ = MatAdd(c.mat_, o.mat_)]
    ELSE [c EXCEPT !.values_ = o.values_]

\* operator+=(const SpareMatrixCache &o), called on c
plus_eq(c, o) ==
    IF IsCold(c) \/ IsCold(o)
    THEN [c EXCEPT !.mat_ = MatAdd(c.mat_, o.mat_)]
    ELSE [c EXCEPT !.values_ = [k \in 1..Len(o.values_) |-> c.values_[k] + o.values_[k]]]

(***************************************************************************)
(* Dense vectors (TVector / Eigen::MatrixXd columns) are sequences; sparse *)
(* matrices (THessian = StiffnessMatrix) are as above.                     *)
(***************************************************************************)
\* the vector with the entries of f, stored entry by entry
Vec(f) == <<>> \o f

\* a + b, a - b, s * a for vectors
VecAdd(a, b) == Vec([k \in 1..Len(a) |-> a[k] + b[k]])

VecSub(a, b) == Vec([k \in 1..Len(a) |-> a[k] - b[k]])

VecScale(s, a) == Vec([k \in 1..Len(a) |-> s * a[k]])

\* a / s, exact on the values the model uses
VecDiv(a, s) == Vec([k \in 1..Len(a) |-> a[k] \div s])

\* a . b
Dot(a, b) == SeqSum(Vec([k \in 1..Len(a) |-> a[k] * b[k]]))

\* m * v for a sparse matrix m
MatVec(m, v) ==
    Vec([r \in 1..m.rows |->
            SeqSum(Vec([c \in 1..m.cols |-> Coeff(m, r - 1, c - 1) * v[c]]))])

\* s * m: every stored value scaled
MatScale(s, m) == [m EXCEPT !.vals = VecScale(s, m.vals)]

\* the tridiagonal n x n matrix with d on the diagonal and o beside it
Tridiagonal(n, d, o) ==
    LET P == { p \in (0..(n - 1)) \X (0..(n - 1)) : p[1] - p[2] \in {-1, 0, 1} }
    IN Compressed(n, P, [p \in P |-> IF p[1] = p[2] THEN d ELSE o])

\* the diagonal n x n matrix with diagonal vector v
Diagonal(n, v) ==
    LET P == { <<k, k>> : k \in 0..(n - 1) }
    IN Compressed(n, P, [p \in P |-> v[p[1] + 1]])

(***************************************************************************)
(* Collaborators of NLProblem.  The assembler, the rhs assembler and the   *)
(* IPC contact library are outside the source; each is a fixed function of *)
(* the arguments NLProblem passes, chosen to depend on every argument; the *)
(* barrier terms are kept small, they are multiplied by barrier_weight.    *)
(***************************************************************************)
\* assembler.is_linear(formulation)
is_linear(formulation) == formulation = "LinearElasticity"

\* assembler.assemble_problem: the linear stiffness matrix
assemble_problem(formulation, n) == Tridiagonal(n, 2, -1)

\* assembler.assemble_energy(formulation, ..., full)
assemble_energy(formulation, full) ==
    LET K == assemble_problem(formulation, Len(full))
    IN (Dot(full, MatVec(K, full)) \div 2)
       + (IF is_linear(formulation) THEN 0
          ELSE SeqSum([k \in 1..Len(full) |-> full[k] * full[k] * full[k] * full[k]]))

\* assembler.assemble_energy_gradient(formulation, ..., full, grad)
assemble_energy_gradient(formulation, full) ==
    LET K == assemble_problem(formulation, Len(full))
    IN IF is_linear(formulation) THEN MatVec(K, full)
       ELSE VecAdd(MatVec(K, full),
                   [k \in 1..Len(full) |-> 4 * full[k] * full[k] * full[k]])

\* assembler.assemble_energy_hessian(formulation, ..., full, hessian)
assemble_energy_hessian(formulation, full) ==
    LET K == assemble_problem(formulation, Len(full))
    IN IF is_linear(formulation) THEN K
       ELSE MatAdd(K, Diagonal(Len(full), [k \in 1..Len(full) |-> 12 * full[k] * full[k]]))

\* rhs_assembler.compute_energy_grad(..., state.rhs, t, out): the load at time t
compute_energy_grad(rhs, t) == VecScale(t + 1, rhs)

\* rhs_assembler.compute_energy(full, ..., t): the energy of the load at time t
compute_energy(rhs, full, t) == 0 - Dot(compute_energy_grad(rhs, t), full)

\* the value rhs_assembler.set_bc prescribes at boundary index i at time t
bc_value(i, t) == 8 * (t + 1) + 4 * i

\* rhs_assembler.set_bc(..., boundary_nodes, ..., rhs, t): the rows at the
\* boundary indices are overwritten with the prescribed values
set_bc(boundary_nodes, rhs, t) ==
    Vec([k \in 1..Len(rhs) |->
            IF \E b \in 1..Len(boundary_nodes) : boundary_nodes[b] = k - 1
            THEN bc_value(k - 1, t) ELSE rhs[k]])

\* Eigen's reshaping loop of is_step_valid / value / gradient_no_rhs /
\* hessian_full: reshaped(i / dim, d) = full(i + d); reshaped[n + 1] is row n
Reshape(full, problem_dim) ==
    [n \in 1..(Len(full) \div problem_dim) |->
        [d \in 1..problem_dim |-> full[(n - 1) * problem_dim + d]]]

\* state.boundary_nodes_pos + reshaped
Displaced(pos, reshaped) ==
    [n \in 1..Len(reshaped) |-> VecAdd(pos[n], reshaped[n])]

\* squared distance of two points
Dist2(a, b) == Dot(VecSub(a, b), VecSub(a, b))

\* double dhat_squared = 1e-6, the squared distance threshold
dhat_squared == "1e-6"

\* ipc::construct_constraint_set(V, E, F, dhat_squared, constraint_set)
construct_constraint_set(V, E, F, dhat2) ==
    { e \in 1..Len(E) : Dist2(V[E[e][1] + 1], V[E[e][2] + 1]) <= 512 }

\* ipc::compute_barrier_potential(V_rest, V, E, F, constraint_set, dhat_squared)
compute_barrier_potential(rest, V, E, F, cs, dhat2) ==
    SeqSum([e \in 1..Len(E) |->
              IF e \in cs THEN 1 + ((Dist2(V[E[e][1] + 1], V[E[e][2] + 1]) \div 16) % 2)
              ELSE 0])

\* ipc::compute_barrier_potential_gradient(...): one entry per degree of freedom
compute_barrier_potential_gradient(rest, V, E, F, cs, dhat2) ==
    LET dim == Len(V[1])
        touches(n) == { e \in cs : E[e][1] + 1 = n \/ E[e][2] + 1 = n }
    IN [k \in 1..(Len(V) * dim) |->
          LET n == ((k - 1) \div dim) + 1
              d == ((k - 1) % dim) + 1
          IN SeqSum([e \in 1..Len(E) |->
                       IF e \in touches(n)
                       THEN 1 + (((V[n][d] - rest[n][d]) \div 4) % 2) ELSE 0])]

\* ipc::compute_barrier_potential_hessian(...)
compute_barrier_potential_hessian(rest, V, E, F, cs, dhat2) ==
    LET dim == Len(V[1])
    IN Diagonal(Len(V) * dim,
                [k \in 1..(Len(V) * dim) |->
                    2 * Cardinality({ e \in cs : E[e][1] = (k - 1) \div dim
                                                  \/ E[e][2] = (k - 1) \div dim })])

\* ipc::is_step_collision_free(V0, V1, E, F)
is_step_collision_free(V0, V1, E, F) ==
    \A e \in 1..Len(E) :
        /\ Dist2(V0[E[e][1] + 1], V0[E[e][2] + 1]) > 0
        /\ Dist2(V1[E[e][1] + 1], V1[E[e][2] + 1]) > 0

\* static bool disable_collision = true;
disable_collision == TRUE

\* the weight of the barrier energy, gradient and Hessian
barrier_weight == 100000000

(***************************************************************************)
(* DOF reduction (full_to_reduced_aux / reduced_to_full_aux of the         *)
(* NLProblem header, which is not part of the source: modelled from the    *)
(* specification, section 4.1).  boundary_nodes is sorted and unique.      *)
(***************************************************************************)
RECURSIVE full_to_reduced_loop(_, _, _, _)
\* one pass over the full indices i with a cursor k into boundary_nodes:
\* entries at boundary indices are dropped, the others kept in order
full_to_reduced_loop(boundary_nodes, full, i, k) ==
    IF i >= Len(full) THEN <<>>
    ELSE IF k < Len(boundary_nodes) /\ boundary_nodes[k + 1] = i
         THEN full_to_reduced_loop(boundary_nodes, full, i + 1, k + 1)
         ELSE <<full[i + 1]>> \o full_to_reduced_loop(boundary_nodes, full, i + 1, k)

\* full_to_reduced_aux(state, full_size, reduced_size, full, reduced)
full_to_reduced_aux(boundary_nodes, full_size, reduced_size, full) ==
    full_to_reduced_loop(boundary_nodes, full, 0, 0)

RECURSIVE reduced_to_full_loop(_, _, _, _, _, _)
\* reduced entries are scattered into the free slots in order, boundary
\* slots are filled from the full-size vector rhs
reduced_to_full_loop(boundary_nodes, full_size, reduced, rhs, i, k) ==
    IF i >= full_size THEN <<>>
    ELSE IF k < Len(boundary_nodes) /\ boundary_nodes[k + 1] = i
         THEN <<rhs[i + 1]>>
              \o reduced_to_full_loop(boundary_nodes, full_size, reduced, rhs, i + 1, k + 1)
         ELSE <<reduced[i - k + 1]>>
              \o reduced_to_full_loop(boundary_nodes, full_size, reduced, rhs, i + 1, k)

\* reduced_to_full_aux(state, full_size, reduced_size, reduced, rhs, full)
reduced_to_full_aux(boundary_nodes, full_size, reduced_size, reduced, rhs) ==
    reduced_to_full_loop(boundary_nodes, full_size, reduced, rhs, 0, 0)

(***************************************************************************)
(* NLProblem.  c is the simulation context (State &state and the           *)
(* rhs_assembler, read-only); p is the record of NLProblem's data members. *)
(* Each query has two operators: its result, and NLProblem after the call  *)
(* (the rhs cache and the stiffness cache are filled lazily).              *)
(***************************************************************************)
\* the constructor with reduced_size computed from the node count
NLProblem_per_node(c, t, dt0) ==
    [full_size |-> c.n_bases * c.dimension,
     reduced_size |-> c.n_bases - Len(c.boundary_nodes),
     t |-> t, rhs_computed |-> FALSE,
     is_time_dependent |-> c.is_time_dependent,
     _current_rhs |-> <<>>, x_prev |-> <<>>, v_prev |-> <<>>, dt |-> dt0,
     cached_stiffness |-> ZeroMat(0)]

\* NLProblem::NLProblem(state, rhs_assembler, t); x_prev, v_prev are empty
\* and dt is not initialised (dt0 is the value the member happens to hold)
NLProblem(c, t, dt0) ==
    LET full_size == c.n_bases * c.dimension
    IN [full_size |-> full_size,
        reduced_size |-> full_size - Len(c.boundary_nodes),
        t |-> t, rhs_computed |-> FALSE,
        is_time_dependent |-> c.is_time_dependent,
        _current_rhs |-> <<>>, x_prev |-> <<>>, v_prev |-> <<>>, dt |-> dt0,
        cached_stiffness |-> ZeroMat(0)]

\* init_timestep that also invalidates the cached rhs
init_timestep_invalidating(p, x_prev, v_prev, dt) ==
    [p EXCEPT !.x_prev = x_prev, !.v_prev = v_prev, !.dt = dt, !.rhs_computed = FALSE]

\* init_timestep(x_prev, v_prev, dt)
init_timestep(p, x_prev, v_prev, dt) ==
    [p EXCEPT !.x_prev = x_prev, !.v_prev = v_prev, !.dt = dt]

\* update_quantities without "rhs_computed = false"
update_quantities_keeping_rhs(p, t, x) ==
    IF p.is_time_dependent
    THEN [p EXCEPT !.v_prev = VecDiv(VecSub(x, p.x_prev), p.dt),
                   !.x_prev = x,
                   !.t = t]
    ELSE p

\* update_quantities without the is_time_dependent guard
update_quantities_unguarded(p, t, x) ==
    [p EXCEPT !.x_prev = x, !.rhs_computed = FALSE, !.t = t]

\* update_quantities with the two assignments in the other order: x_prev = x
\* first, then v_prev = (x - x_prev) / dt
update_quantities_swapped(p, t, x) ==
    IF p.is_time_dependent
    THEN [p EXCEPT !.v_prev = VecDiv(VecSub(x, x), p.dt),
                   !.x_prev = x,
                   !.rhs_computed = FALSE,
                   !.t = t]
    ELSE p

\* update_quantities(t, x)
update_quantities(p, t, x) ==
    IF p.is_time_dependent
    THEN [p EXCEPT !.v_prev = VecDiv(VecSub(x, p.x_prev), p.dt),
                   !.x_prev = x,
                   !.rhs_computed = FALSE,
                   !.t = t]
    ELSE p

\* the vector current_rhs() computes when the cache is invalid
compute_rhs(c, p) ==
    LET load == compute_energy_grad(c.rhs, p.t)
        scaled == IF p.is_time_dependent
                  THEN VecAdd(VecScale((p.dt * p.dt) \div 2, load),
                              MatVec(c.mass, VecAdd(p.x_prev, VecScale(p.dt, p.v_prev))))
                  ELSE load
    IN set_bc(c.boundary_nodes, scaled, p.t)

\* current_rhs() that recomputes the vector on every call
current_rhs_eager(c, p) ==
    [p EXCEPT !._current_rhs = compute_rhs(c, p), !.rhs_computed = TRUE]

\* current_rhs(): NLProblem after the call; the vector returned is its
\* _current_rhs
current_rhs(c, p) ==
    IF ~p.rhs_computed
    THEN [p EXCEPT !._current_rhs = compute_rhs(c, p), !.rhs_computed = TRUE]
    ELSE p

\* full_to_reduced(full, reduced)
full_to_reduced(c, p, full) ==
    full_to_reduced_aux(c.boundary_nodes, p.full_size, p.reduced_size, full)

\* reduced_to_full with the boundary slots filled with zeros instead of the
\* values of current_rhs()
reduced_to_full_zero_boundary(c, p, reduced) ==
    reduced_to_full_aux(c.boundary_nodes, p.full_size, p.reduced_size, reduced,
                        [k \in 1..p.full_size |-> 0])

\* reduced_to_full that returns the boundary-values vector, without
\* scattering the reduced entries into it
reduced_to_full_boundary_only(c, p, reduced) == current_rhs(c, p)._current_rhs

\* reduced_to_full(reduced, full); NLProblem after the call is current_rhs(c, p)
reduced_to_full(c, p, reduced) ==
    reduced_to_full_aux(c.boundary_nodes, p.full_size, p.reduced_size, reduced,
                        current_rhs(c, p)._current_rhs)

\* "if (x.size() == reduced_size) reduced_to_full(x, full); else full = x;"
expand(c, p, x) ==
    IF Len(x) = p.reduced_size THEN reduced_to_full(c, p, x) ELSE x

\* NLProblem after expand(c, p, x)
expand_state(c, p, x) ==
    IF Len(x) = p.reduced_size THEN current_rhs(c, p) ELSE p

\* the contact test without the global switch
contact_applies_has_collision_only(c) == c.has_collision

\* "!disable_collision && state.args["has_collision"]"
contact_applies(c) == ~c.disable_collision /\ c.has_collision

\* is_step_valid that reports an invalid step when contact is disabled
is_step_valid_rejecting(c, p, x0, x1) == ~c.disable_collision /\ c.has_collision

\* is_step_valid(x0, x1)
is_step_valid(c, p, x0, x1) ==
    IF c.disable_collision THEN TRUE
    ELSE IF ~c.has_collision THEN TRUE
    ELSE LET full0 == expand(c, p, x0)
             full1 == expand(c, expand_state(c, p, x0), x1)
             reshaped0 == Reshape(full0, c.dimension)
             reshaped1 == Reshape(full1, c.dimension)
         IN ~is_step_collision_free(Displaced(c.boundary_nodes_pos, reshaped0),
                                    Displaced(c.boundary_nodes_pos, reshaped1),
                                    c.boundary_edges, c.boundary_triangles)

\* NLProblem after is_step_valid(x0, x1)
is_step_valid_state(c, p, x0, x1) ==
    IF c.disable_collision \/ ~c.has_collision THEN p
    ELSE expand_state(c, expand_state(c, p, x0), x1)

\* value(x): the inertia term 0.5 * tmp' * mass * tmp
inertia(mass, tmp) == Dot(tmp, MatVec(mass, tmp)) \div 2

\* value(x): the barrier energy at the displaced boundary V
collision_value(c, V) ==
    compute_barrier_potential(
        c.boundary_nodes_pos, V, c.boundary_edges, c.boundary_triangles,
        construct_constraint_set(V, c.boundary_edges, c.boundary_triangles, dhat_squared),
        dhat_squared)

\* value(x), after the expansion of x to full
value_at(c, p, full) ==
    LET elastic_energy == assemble_energy(c.rhs_formulation, full)
        body_energy == compute_energy(c.rhs, full, p.t)
        scaling == IF p.is_time_dependent THEN (p.dt * p.dt) \div 2 ELSE 1
        intertia_energy ==
            IF p.is_time_dependent
            THEN inertia(c.mass, VecSub(full, VecAdd(p.x_prev, VecScale(p.dt, p.v_prev))))
            ELSE 0
        collision_energy ==
            IF contact_applies(c)
            THEN collision_value(c, Displaced(c.boundary_nodes_pos, Reshape(full, c.dimension)))
            ELSE 0
    IN scaling * (elastic_energy + body_energy + barrier_weight * collision_energy)
       + intertia_energy

\* value(x)
value(c, p, x) == value_at(c, p, expand(c, p, x))

\* value(x) that stores the iterate it was called with as x_prev
value_state_advancing(c, p, x) ==
    [expand_state(c, p, x) EXCEPT !.x_prev = expand(c, p, x)]

\* NLProblem after value(x)
value_state(c, p, x) == expand_state(c, p, x)

\* compute_cached_stiffness(): NLProblem after the call
compute_cached_stiffness(c, p) ==
    IF p.cached_stiffness.rows * p.cached_stiffness.cols = 0
    THEN IF is_linear(c.formulation)
         THEN [p EXCEPT !.cached_stiffness =
                            assemble_problem(c.formulation, c.n_bases * c.dimension)]
         ELSE p
    ELSE p

\* gradient_no_rhs / hessian_full: the barrier gradient at the displaced boundary V
collision_gradient(c, V) ==
    compute_barrier_potential_gradient(
        c.boundary_nodes_pos, V, c.boundary_edges, c.boundary_triangles,
        construct_constraint_set(V, c.boundary_edges, c.boundary_triangles, dhat_squared),
        dhat_squared)

\* gradient_no_rhs(x, grad), after the expansion of x to full
gradient_no_rhs_at(c, p, full) ==
    IF contact_applies(c)
    THEN VecAdd(assemble_energy_gradient(c.rhs_formulation, full),
                VecScale(barrier_weight,
                         collision_gradient(c, Displaced(c.boundary_nodes_pos,
                                                         Reshape(full, c.dimension)))))
    ELSE assemble_energy_gradient(c.rhs_formulation, full)

\* gradient_no_rhs(x, grad)
gradient_no_rhs(c, p, x) == gradient_no_rhs_at(c, p, expand(c, p, x))

\* NLProblem after gradient_no_rhs(x, grad)
gradient_no_rhs_state(c, p, x) == expand_state(c, p, x)

\* gradient(x, gradv), from grad = gradient_no_rhs(x) and p1, the
\* NLProblem after that call
gradient_at(c, p1, x, grad) ==
    full_to_reduced(c, p1,
        VecSub(IF p1.is_time_dependent
               THEN VecAdd(VecScale((p1.dt * p1.dt) \div 2, grad),
                           MatVec(c.mass, expand(c, p1, x)))
               ELSE grad,
               current_rhs(c, p1)._current_rhs))

\* gradient(x, gradv)
gradient(c, p, x) ==
    gradient_at(c, gradient_no_rhs_state(c, p, x), x, gradient_no_rhs(c, p, x))

\* NLProblem after gradient(x, gradv)
gradient_state(c, p, x) == current_rhs(c, gradient_no_rhs_state(c, p, x))

\* hessian_full: the barrier Hessian at the displaced boundary V
collision_hessian(c, V) ==
    compute_barrier_potential_hessian(
        c.boundary_nodes_pos, V, c.boundary_edges, c.boundary_triangles,
        construct_constraint_set(V, c.boundary_edges, c.boundary_triangles, dhat_squared),
        dhat_squared)

\* hessian_full with the factor dt * dt / 2 on the mass matrix
hessian_timed_mass_scaled(c, p, elastic) ==
    IF p.is_time_dependent
    THEN MatAdd(elastic, MatScale((p.dt * p.dt) \div 2, c.mass))
    ELSE elastic

\* hessian_full: the scaling of the elastic Hessian and the mass term
hessian_timed(c, p, elastic) ==
    IF p.is_time_dependent
    THEN MatAdd(MatScale((p.dt * p.dt) \div 2, elastic), c.mass)
    ELSE elastic

\* hessian_full(x, hessian), after the expansion of x to full; p1 is the
\* NLProblem after the expansion
hessian_full_at(c, p1, full) ==
    LET elastic == IF is_linear(c.rhs_formulation)
                   THEN compute_cached_stiffness(c, p1).cached_stiffness
                   ELSE assemble_energy_hessian(c.rhs_formulation, full)
    IN IF contact_applies(c)
       THEN MatAdd(hessian_timed(c, p1, elastic),
                   MatScale(barrier_weight,
                            collision_hessian(c, Displaced(c.boundary_nodes_pos,
                                                           Reshape(full, c.dimension)))))
       ELSE hessian_timed(c, p1, elastic)

\* hessian_full(x, hessian)
hessian_full(c, p, x) == hessian_full_at(c, expand_state(c, p, x), expand(c, p, x))

\* NLProblem after hessian_full(x, hessian)
hessian_full_state(c, p, x) ==
    IF is_linear(c.rhs_formulation)
    THEN compute_cached_stiffness(c, expand_state(c, p, x))
    ELSE expand_state(c, p, x)

RECURSIVE hessian_indices(_, _, _, _, _)
\* hessian(): the index remap loop; indices[i + 1] is -1 for a boundary
\* index and the next dense index otherwise
hessian_indices(boundary_nodes, full_size, i, kk, index) ==
    IF i >= full_size THEN <<>>
    ELSE IF kk < Len(boundary_nodes) /\ boundary_nodes[kk + 1] = i
         THEN <<-1>> \o hessian_indices(boundary_nodes, full_size, i + 1, kk + 1, index)
         ELSE <<index>> \o hessian_indices(boundary_nodes, full_size, i + 1, kk, index + 1)

RECURSIVE hessian_column_break(_, _, _, _)
\* the inner loop of hessian() with "continue" written as "break": the
\* first entry of a column with a boundary row ends the column
hessian_column_break(tmp, indices, k, pos) ==
    IF pos > tmp.outer[k + 2] THEN <<>>
    ELSE LET row == tmp.inner[pos]
         IN IF indices[row + 1] < 0 \/ indices[k + 1] < 0
            THEN <<>>
            ELSE <<Triplet(indices[row + 1], indices[k + 1], tmp.vals[pos])>>
                 \o hessian_column_break(tmp, indices, k, pos + 1)

RECURSIVE hessian_column(_, _, _, _)
\* hessian(): the inner loop over the stored entries pos of column k of tmp
hessian_column(tmp, indices, k, pos) ==
    IF pos > tmp.outer[k + 2] THEN <<>>
    ELSE LET row == tmp.inner[pos]
         IN IF indices[row + 1] < 0 \/ indices[k + 1] < 0
            THEN hessian_column(tmp, indices, k, pos + 1)
            ELSE <<Triplet(indices[row + 1], indices[k + 1], tmp.vals[pos])>>
                 \o hessian_column(tmp, indices, k, pos + 1)

RECURSIVE hessian_entries(_, _, _)
\* hessian(): the outer loop over the columns k of tmp
hessian_entries(tmp, indices, k) ==
    IF k >= tmp.cols THEN <<>>
    ELSE IF indices[k + 1] < 0
         THEN hessian_entries(tmp, indices, k + 1)
         ELSE hessian_column(tmp, indices, k, tmp.outer[k + 1] + 1)
              \o hessian_entries(tmp, indices, k + 1)

\* hessian(x, hessian)
hessian(c, p, x) ==
    setFromTriplets(p.reduced_size,
                    hessian_entries(hessian_full(c, p, x),
                                    hessian_indices(c.boundary_nodes, p.full_size, 0, 0, 0),
                                    0))

\* NLProblem after hessian(x, hessian)
hessian_state(c, p, x) == hessian_full_state(c, p, x)

(***************************************************************************)
(* State.  cache holds the SpareMatrixCache objects of a run; failed is    *)
(* set when an assertion of the code fails (the process aborts); ret is    *)
(* the matrix returned by the last get_matrix call.  pc, log, cursor and   *)
(* snap are bookkeeping of the scenarios: the phase of the scenario, the   *)
(* add_value calls made on each cache, the replay position, and matrices   *)
(* recorded for comparison; acc[id][<<i, j>>] is the sum of the values     *)
(* passed to add_value(i, j, .) on cache id in the current accumulation    *)
(* round and cnt[id] the number of those calls; mark remembers whether a   *)
(* set_zero() was called with no add_value since, and the structure the    *)
(* cache had before it.  ctx is the simulation context an NLProblem was   *)
(* constructed on and nl the NLProblem's data members; op is the last call *)
(* made on it (name and arguments) and out what that call returned.        *)
(***************************************************************************)
VARIABLES cache, failed, ret, pc, log, cursor, snap, acc, cnt, mark,
          ctx, nl, op, out

cacheVars == <<cache, ret, pc, log, cursor, snap, acc, cnt, mark>>

nlVars == <<ctx, nl, op, out>>

vars == <<cache, failed, ret, pc, log, cursor, snap, acc, cnt, mark, ctx, nl, op, out>>

CacheIds == {"ref", "a", "b", "out"}

\* the value of ret before any get_matrix call
NoMatrix == ZeroMat(0)

\* the value of acc before any add_value call
NoSums == [p \in (0..(MaxSize - 1)) \X (0..(MaxSize - 1)) |-> 0]

\* the cached structure of a cache: mapping and index arrays
Structure(c) == [mapping_ |-> c.mapping_, inner_index_ |-> c.inner_index_,
                 outer_index_ |-> c.outer_index_]

\* the value of mark before any set_zero call
NoMark == [zeroed |-> FALSE, before |-> Structure(SpareMatrixCache(0))]

\* row / column indices valid for cache id
Idx(id) == 0..(cache[id].size_ - 1)

(***************************************************************************)
(* Simulation contexts.  A context is what NLProblem reads of State and    *)
(* of the rhs assembler: sizes, the sorted boundary index list, the        *)
(* formulation, the flags, the load vector, the mass matrix and the rest   *)
(* geometry of the boundary.                                               *)
(***************************************************************************)
\* state.n_bases of the contexts explored
NBases == {2}

\* state.mesh->dimension()
Dimension == 2

Formulations == {"LinearElasticity", "NeoHookean"}

\* time step sizes and times passed by the solver
DtVals == {2, 4}

Times == {0, 1}

\* the vectors of length n passed as iterates and previous solutions
Vecs(n) == { [k \in 1..n |-> a + 4 * (k - 1)] : a \in {0, 8} }

\* the initial solution and the initial velocities of length n
InitialSolutions(n) == { [k \in 1..n |-> 4] }

Velocities(n) == { [k \in 1..n |-> 4] }

\* sorted, duplicate-free boundary index lists over n degrees of freedom
BoundarySets(n) ==
    { SortedSeq(S) : S \in { {}, {1, 3} \cap (0..(n - 1)), 0..(n - 1) } }

\* rest geometries of the boundary of a mesh with n nodes: positions, edges
\* and triangles
Geometries(n) ==
    { [pos |-> [k \in 1..n |-> <<s * k, 0 - s * k>>],
       edges |-> IF e THEN [k \in 1..(n - 1) |-> <<k - 1, k>>] ELSE <<>>,
       triangles |-> <<>>] : s \in {-8, 4}, e \in BOOLEAN }

RestGeometry(n) ==
    [pos |-> [k \in 1..n |-> <<4 * k, 0 - 4 * k>>],
     edges |-> [k \in 1..(n - 1) |-> <<k - 1, k>>],
     triangles |-> <<>>]

\* the context with the boundary geometry replaced by g
WithGeometry(c, g) ==
    [c EXCEPT !.boundary_nodes_pos = g.pos, !.boundary_edges = g.edges,
              !.boundary_triangles = g.triangles]

Context(n_bases, boundary_nodes, formulation, has_collision, is_time_dependent) ==
    WithGeometry(
        [n_bases |-> n_bases, dimension |-> Dimension,
         boundary_nodes |-> boundary_nodes,
         formulation |-> formulation, rhs_formulation |-> formulation,
         is_mixed |-> FALSE,
         has_collision |-> has_collision, disable_collision |-> disable_collision,
         is_time_dependent |-> is_time_dependent,
         rhs |-> [k \in 1..(n_bases * Dimension) |-> 4 * k],
         mass |-> Tridiagonal(n_bases * Dimension, 4, 1),
         boundary_nodes_pos |-> <<>>, boundary_edges |-> <<>>,
         boundary_triangles |-> <<>>],
        RestGeometry(n_bases))

\* the values of the NLProblem variables in the cache scenarios, where no
\* NLProblem is constructed
NoContext == Context(0, <<>>, "LinearElasticity", FALSE, FALSE)

NoResult == <<>>

\* a call and its arguments
Call(name, x, x1, t) == [name |-> name, x |-> x, x1 |-> x1, t |-> t]

IdleNL ==
    /\ ctx = NoContext
    /\ nl = NLProblem(NoContext, 0, 0)
    /\ op = Call("none", <<>>, <<>>, 0)
    /\ out = NoResult

\* the values of the cache variables in the NLProblem scenario
IdleCache ==
    /\ cache = [id \in CacheIds |-> SpareMatrixCache(0)]
    /\ ret = NoMatrix
    /\ pc = "idle"
    /\ log = [id \in CacheIds |-> <<>>]
    /\ cursor = 0
    /\ snap = [id \in CacheIds |-> NoMatrix]
    /\ acc = [id \in CacheIds |-> NoSums]
    /\ cnt = [id \in CacheIds |-> 0]
    /\ mark = NoMark

(***************************************************************************)
(* Calls on cache[id]: their effect on cache, failed and ret.  A failing   *)
(* assertion aborts: failed becomes TRUE and nothing else runs.            *)
(***************************************************************************)
\* cache[id].add_value(i, j, v)
CallAddValue(id, i, j, v) ==
    /\ ~failed
    /\ IF add_value_ok(cache[id], i, j)
       THEN cache' = [cache EXCEPT ![id] = add_value(@, i, j, v)] /\ failed' = FALSE
       ELSE cache' = cache /\ failed' = TRUE
    /\ ret' = ret

\* cache[id].prune()
CallPrune(id) ==
    /\ ~failed
    /\ cache' = [cache EXCEPT ![id] = prune(@)]
    /\ UNCHANGED <<failed, ret>>

\* cache[id].set_zero()
CallSetZero(id) ==
    /\ ~failed
    /\ cache' = [cache EXCEPT ![id] = set_zero(@)]
    /\ UNCHANGED <<failed, ret>>

\* cache[id].get_matrix(compute_mapping), returning normally
CallGetMatrix(id, compute_mapping) ==
    /\ ~failed
    /\ cache' = [cache EXCEPT ![id] = get_matrix(@, compute_mapping)]
    /\ ret' = get_matrix(cache[id], compute_mapping).mat_
    /\ failed' = FALSE

\* cache[id].get_matrix() on a warm cache with an empty pattern:
\* &values_[0] on an empty std::vector is undefined; a build with checked
\* containers aborts there, other builds go on (CallGetMatrix).
CallGetMatrixAbort(id) ==
    /\ ~failed
    /\ get_matrix_indexes_empty(cache[id])
    /\ failed' = TRUE
    /\ UNCHANGED <<cache, ret>>

(***************************************************************************)
(* Scenario SpecReplay: a sequence of add_value calls on a cold cache,     *)
(* get_matrix(true), set_zero(), the same sequence replayed on the warm    *)
(* cache, get_matrix().                                                    *)
(***************************************************************************)
InitReplay ==
    /\ IdleNL
    /\ \E n \in Sizes : cache = [id \in CacheIds |-> SpareMatrixCache(n)]
    /\ failed = FALSE
    /\ ret = NoMatrix
    /\ pc = "cold"
    /\ log = [id \in CacheIds |-> <<>>]
    /\ cursor = 0
    /\ snap = [id \in CacheIds |-> NoMatrix]
    /\ acc = [id \in CacheIds |-> NoSums]
    /\ cnt = [id \in CacheIds |-> 0]
    /\ mark = NoMark

ReplayColdAdd ==
    /\ UNCHANGED nlVars
    /\ pc = "cold"
    /\ Len(log["a"]) < MaxAdds
    /\ \E i \in Idx("a"), j \in Idx("a"), v \in AddVals :
          /\ CallAddValue("a", i, j, v)
          /\ log' = [log EXCEPT !["a"] = Append(@, Triplet(i, j, v))]
    /\ UNCHANGED <<pc, cursor, snap, acc, cnt, mark>>

ReplayComputeMapping ==
    /\ UNCHANGED nlVars
    /\ pc = "cold"
    /\ CallGetMatrix("a", TRUE)
    /\ pc' = "mapped"
    /\ snap' = [snap EXCEPT !["a"] = ret']
    /\ UNCHANGED <<log, cursor, acc, cnt, mark>>

ReplaySetZero ==
    /\ UNCHANGED nlVars
    /\ pc = "mapped"
    /\ CallSetZero("a")
    /\ pc' = "warm"
    /\ UNCHANGED <<log, cursor, snap, acc, cnt, mark>>

ReplayWarmAdd ==
    /\ UNCHANGED nlVars
    /\ pc = "warm"
    /\ cursor < Len(log["a"])
    /\ LET e == log["a"][cursor + 1]
       IN CallAddValue("a", e.row, e.col, e.value)
    /\ cursor' = cursor + 1
    /\ UNCHANGED <<pc, log, snap, acc, cnt, mark>>

ReplayGetMatrix ==
    /\ UNCHANGED nlVars
    /\ pc = "warm"
    /\ cursor = Len(log["a"])
    /\ CallGetMatrix("a", FALSE)
    /\ pc' = "done"
    /\ UNCHANGED <<log, cursor, snap, acc, cnt, mark>>

ReplayGetMatrixAbort ==
    /\ UNCHANGED nlVars
    /\ pc = "warm"
    /\ cursor = Len(log["a"])
    /\ CallGetMatrixAbort("a")
    /\ UNCHANGED <<pc, log, cursor, snap, acc, cnt, mark>>

NextReplay ==
    \/ ReplayColdAdd
    \/ ReplayComputeMapping
    \/ ReplaySetZero
    \/ ReplayWarmAdd
    \/ ReplayGetMatrix
    \/ ReplayGetMatrixAbort

SpecReplay == InitReplay /\ [][NextReplay]_vars

\* C1: when the replay scenario completes, the matrix returned by the warm
\* get_matrix() has the same structural positions and the same values as the
\* direct triplet assembly of the add_value sequence (and as the matrix the
\* cold get_matrix(true) returned).
C1_ReplayEqualsDirectAssembly ==
    pc = "done" =>
        /\ ~failed
        /\ ret = setFromTriplets(cache["a"].size_, log["a"])
        /\ ret = snap["a"]

\* C1 witness: a completed replay of a sequence that hits one position twice
\* and another position once.
C1_Witness ==
    /\ pc = "done"
    /\ Len(log["a"]) = 3
    /\ nonZeros(ret) = 2
    /\ \E k \in 1..Len(ret.vals) : ret.vals[k] = 3

(***************************************************************************)
(* Scenario SpecMerge: a reference cache is assembled and made warm; two   *)
(* caches a (used before: it holds a pending triplet) and b (fresh) are    *)
(* initialised from it with init(ref) and accumulate values independently; *)
(* then either a += b or out = a + b is formed and get_matrix() is called  *)
(* on the result.                                                          *)
(***************************************************************************)
\* longest add_value sequence on each cache of the merge scenario
MaxMergeAdds == 2

\* values passed to add_value in the merge scenario
MergeVals == {-1, 2}

\* acc after one more add_value(i, j, v) on cache id
Accumulate(id, i, j, v) == [acc EXCEPT ![id][<<i, j>>] = @ + v]

InitMerge ==
    /\ IdleNL
    /\ \E n \in Sizes :
          cache = [id \in CacheIds |->
                     IF id = "a" THEN add_value(SpareMatrixCache(n), 0, 0, 2)
                     ELSE SpareMatrixCache(n)]
    /\ failed = FALSE
    /\ ret = NoMatrix
    /\ pc = "build"
    /\ log = [id \in CacheIds |-> <<>>]
    /\ cursor = 0
    /\ snap = [id \in CacheIds |-> NoMatrix]
    /\ acc = [id \in CacheIds |-> NoSums]
    /\ cnt = [id \in CacheIds |-> 0]
    /\ mark = NoMark

\* ref.add_value(i, j, 1) while ref is cold; the reference pattern is
\* assembled column by column, each position once
MergeRefAdd ==
    /\ UNCHANGED nlVars
    /\ pc = "build"
    /\ cnt["ref"] < MaxMergeAdds
    /\ \E i \in Idx("ref"), j \in Idx("ref") :
          /\ \A k \in 1..Len(cache["ref"].entries_) :
                LET e == cache["ref"].entries_[k]
                IN e.col < j \/ (e.col = j /\ e.row < i)
          /\ CallAddValue("ref", i, j, 1)
    /\ cnt' = [cnt EXCEPT !["ref"] = @ + 1]
    /\ UNCHANGED <<pc, log, cursor, snap, acc, mark>>

\* ref.get_matrix(true): ref becomes warm
MergeRefMapping ==
    /\ UNCHANGED nlVars
    /\ pc = "build"
    /\ CallGetMatrix("ref", TRUE)
    /\ pc' = "init_a"
    /\ UNCHANGED <<log, cursor, snap, acc, cnt, mark>>

\* a.init(ref)
MergeInitA ==
    /\ UNCHANGED nlVars
    /\ pc = "init_a"
    /\ ~failed
    /\ cache' = [cache EXCEPT !["a"] = init_other(@, cache["ref"])]
    /\ pc' = "init_b"
    /\ UNCHANGED <<failed, ret, log, cursor, snap, acc, cnt, mark>>

\* b.init(ref)
MergeInitB ==
    /\ UNCHANGED nlVars
    /\ pc = "init_b"
    /\ ~failed
    /\ cache' = [cache EXCEPT !["b"] = init_other(@, cache["ref"])]
    /\ pc' = "fill"
    /\ UNCHANGED <<failed, ret, log, cursor, snap, acc, cnt, mark>>

\* a.add_value / b.add_value at a position of ref's pattern
MergeAdd ==
    /\ UNCHANGED nlVars
    /\ pc = "fill"
    /\ \E id \in {"a", "b"} :
          /\ cnt[id] < MaxMergeAdds
          /\ \E i \in Idx(id), j \in Idx(id), v \in MergeVals :
                /\ <<i, j>> \in Positions(cache["ref"].mat_)
                /\ CallAddValue(id, i, j, v)
                /\ acc' = Accumulate(id, i, j, v)
          /\ cnt' = [cnt EXCEPT ![id] = @ + 1]
    /\ UNCHANGED <<pc, log, cursor, snap, mark>>

\* a += b; snap records the matrices a and b would have returned on their own
MergePlusEq ==
    /\ UNCHANGED nlVars
    /\ pc = "fill"
    /\ ~failed
    /\ IF merge_ok(cache["a"], cache["b"])
       THEN cache' = [cache EXCEPT !["a"] = plus_eq(@, cache["b"])] /\ failed' = FALSE
       ELSE cache' = cache /\ failed' = TRUE
    /\ snap' = [snap EXCEPT !["a"] = get_matrix(cache["a"], FALSE).mat_,
                            !["b"] = get_matrix(cache["b"], FALSE).mat_]
    /\ pc' = "merged_eq"
    /\ UNCHANGED <<ret, log, cursor, acc, cnt, mark>>

\* out = a + b
MergePlus ==
    /\ UNCHANGED nlVars
    /\ pc = "fill"
    /\ ~failed
    /\ IF merge_ok(cache["a"], cache["b"])
       THEN cache' = [cache EXCEPT !["out"] = plus(cache["a"], cache["b"])] /\ failed' = FALSE
       ELSE cache' = cache /\ failed' = TRUE
    /\ snap' = [snap EXCEPT !["a"] = get_matrix(cache["a"], FALSE).mat_,
                            !["b"] = get_matrix(cache["b"], FALSE).mat_]
    /\ pc' = "merged_plus"
    /\ UNCHANGED <<ret, log, cursor, acc, cnt, mark>>

\* a.get_matrix() after a += b
MergeGetEq ==
    /\ UNCHANGED nlVars
    /\ pc = "merged_eq"
    /\ CallGetMatrix("a", FALSE)
    /\ pc' = "done_eq"
    /\ UNCHANGED <<log, cursor, snap, acc, cnt, mark>>

\* (a + b).get_matrix()
MergeGetPlus ==
    /\ UNCHANGED nlVars
    /\ pc = "merged_plus"
    /\ CallGetMatrix("out", FALSE)
    /\ pc' = "done_plus"
    /\ UNCHANGED <<log, cursor, snap, acc, cnt, mark>>

\* get_matrix() on the merged cache aborting (empty pattern, checked containers)
MergeGetAbort ==
    /\ UNCHANGED nlVars
    /\ \/ pc = "merged_eq" /\ CallGetMatrixAbort("a")
       \/ pc = "merged_plus" /\ CallGetMatrixAbort("out")
    /\ UNCHANGED <<pc, log, cursor, snap, acc, cnt, mark>>

NextMerge ==
    \/ MergeRefAdd
    \/ MergeRefMapping
    \/ MergeInitA
    \/ MergeInitB
    \/ MergeAdd
    \/ MergePlusEq
    \/ MergePlus
    \/ MergeGetEq
    \/ MergeGetPlus
    \/ MergeGetAbort

SpecMerge == InitMerge /\ [][NextMerge]_vars

\* the matrix of structure P holding, at each position, the values added to
\* a plus the values added to b
SumOfAdds(n, P) == Compressed(n, P, [p \in P |-> acc["a"][p] + acc["b"][p]])

\* C2: for a and b initialised from the same warm reference and filled at
\* positions of its pattern, a.get_matrix() after a += b, and
\* (a + b).get_matrix(), equal the entry-wise sum of the matrices a and b
\* would each have returned on their own, which holds at every position of
\* the pattern the sum of all values added to a and to b.
C2_MergeIsSum ==
    pc \in {"done_eq", "done_plus"} =>
        /\ ~failed
        /\ ret = MatAdd(snap["a"], snap["b"])
        /\ ret = SumOfAdds(cache["ref"].size_, Positions(cache["ref"].mat_))

\* C2 witness (a += b): both caches received values, at a common position
\* and at different ones, and the merged matrix was returned.
C2_Witness ==
    /\ pc = "done_eq"
    /\ cnt["a"] = 2 /\ cnt["b"] = 2
    /\ \E p \in Positions(ret) : acc["a"][p] # 0 /\ acc["b"][p] # 0
    /\ \E p \in Positions(ret) : acc["a"][p] # 0 /\ acc["b"][p] = 0
    /\ snap["a"] # ret /\ snap["b"] # ret

\* C2 witness (a + b): the same for the merged cache out.
C2_WitnessPlus ==
    /\ pc = "done_plus"
    /\ cnt["a"] = 2 /\ cnt["b"] = 2
    /\ \E p \in Positions(ret) : acc["a"][p] # 0 /\ acc["b"][p] # 0
    /\ cache["a"].entries_ # <<>>

(***************************************************************************)
(* SpecCache: one cache driven by any sequence of add_value, prune,        *)
(* set_zero and get_matrix calls.  pc is the name of the last call.        *)
(***************************************************************************)
\* largest number of add_value calls of a SpecCache run
MaxCacheAdds == 2

InitCache ==
    /\ IdleNL
    /\ \E n \in Sizes : cache = [id \in CacheIds |-> SpareMatrixCache(n)]
    /\ failed = FALSE
    /\ ret = NoMatrix
    /\ pc = "none"
    /\ log = [id \in CacheIds |-> <<>>]
    /\ cursor = 0
    /\ snap = [id \in CacheIds |-> NoMatrix]
    /\ acc = [id \in CacheIds |-> NoSums]
    /\ cnt = [id \in CacheIds |-> 0]
    /\ mark = NoMark

\* a.add_value(i, j, v)
CacheAddValue ==
    /\ UNCHANGED nlVars
    /\ cnt["a"] < MaxCacheAdds
    /\ \E i \in Idx("a"), j \in Idx("a"), v \in AddVals : CallAddValue("a", i, j, v)
    /\ cnt' = [cnt EXCEPT !["a"] = @ + 1]
    /\ pc' = "add_value"
    /\ mark' = [mark EXCEPT !.zeroed = FALSE]
    /\ UNCHANGED <<log, cursor, snap, acc>>

\* a.prune()
CachePrune ==
    /\ UNCHANGED nlVars
    /\ CallPrune("a")
    /\ pc' = "prune"
    /\ UNCHANGED <<log, cursor, snap, acc, cnt, mark>>

\* a.set_zero()
CacheSetZero ==
    /\ UNCHANGED nlVars
    /\ CallSetZero("a")
    /\ pc' = "set_zero"
    /\ mark' = [zeroed |-> TRUE, before |-> Structure(cache["a"])]
    /\ UNCHANGED <<log, cursor, snap, acc, cnt>>

\* a.get_matrix(compute_mapping)
CacheGetMatrix ==
    /\ UNCHANGED nlVars
    /\ \E compute_mapping \in BOOLEAN : CallGetMatrix("a", compute_mapping)
    /\ pc' = "get_matrix"
    /\ UNCHANGED <<log, cursor, snap, acc, cnt, mark>>

\* a.get_matrix() aborting (empty pattern, checked containers)
CacheGetMatrixAbort ==
    /\ UNCHANGED nlVars
    /\ CallGetMatrixAbort("a")
    /\ pc' = "abort"
    /\ UNCHANGED <<log, cursor, snap, acc, cnt, mark>>

NextCache ==
    \/ CacheAddValue
    \/ CachePrune
    \/ CacheSetZero
    \/ CacheGetMatrix
    \/ CacheGetMatrixAbort

SpecCache == InitCache /\ [][NextCache]_vars

\* C10: right after set_zero() the triplet buffer is empty, the running
\* matrix has no entry, the value buffer is all zero and the mapping and
\* index arrays are those the cache had before the call; and a get_matrix()
\* that follows set_zero() with no add_value in between returns a matrix
\* with no non-zero value.
C10_SetZeroClears ==
    /\ pc = "set_zero" =>
          /\ cache["a"].entries_ = <<>>
          /\ nonZeros(cache["a"].mat_) = 0
          /\ AllZero([vals |-> cache["a"].values_])
          /\ Structure(cache["a"]) = mark.before
    /\ (pc = "get_matrix" /\ mark.zeroed) => AllZero(ret)

\* C10, the part that holds of the code: set_zero() empties the running
\* matrix, zeroes the value buffer and keeps the mapping and index arrays.
C10_SetZeroKeepsStructure ==
    pc = "set_zero" =>
        /\ nonZeros(cache["a"].mat_) = 0
        /\ AllZero([vals |-> cache["a"].values_])
        /\ Structure(cache["a"]) = mark.before


(***************************************************************************)
(* Scenario SpecNL: an NLProblem is constructed on a context and then      *)
(* called by the solver in any order.  A call whose vector sizes do not    *)
(* match (a time-dependent problem used before init_timestep) fails an     *)
(* Eigen size assertion: failed becomes TRUE and nothing else runs.        *)
(***************************************************************************)
\* current_rhs() does not fail: mass * (x_prev + dt * v_prev) has matching sizes
rhs_ok(c, p) ==
    \/ p.rhs_computed
    \/ ~p.is_time_dependent
    \/ Len(p.x_prev) = p.full_size /\ Len(p.v_prev) = p.full_size

\* the expansion of x does not fail
expand_ok(c, p, x) == Len(x) = p.reduced_size => rhs_ok(c, p)

\* value(x) does not fail: full - (x_prev + dt * v_prev) has matching sizes
value_ok(c, p, x) ==
    /\ expand_ok(c, p, x)
    /\ p.is_time_dependent => Len(p.x_prev) = p.full_size /\ Len(p.v_prev) = p.full_size

\* update_quantities(t, x) does not fail: x - x_prev has matching sizes
update_quantities_ok(p, x) == p.is_time_dependent => Len(p.x_prev) = Len(x)

\* is_step_valid(x0, x1) does not fail
is_step_valid_ok(c, p, x0, x1) ==
    contact_applies(c) => expand_ok(c, p, x0) /\ expand_ok(c, p, x1)

\* the vectors the solver passes as x: full or reduced length
Iterates == Vecs(nl.full_size) \cup Vecs(nl.reduced_size)

\* the result of the query called name at x
QueryResult(name, c, p, x) ==
    CASE name = "value" -> value(c, p, x)
      [] name = "gradient" -> gradient(c, p, x)
      [] name = "gradient_no_rhs" -> gradient_no_rhs(c, p, x)
      [] name = "hessian" -> hessian(c, p, x)
      [] name = "hessian_full" -> hessian_full(c, p, x)

\* the query called name at x does not fail
QueryOk(name, c, p, x) ==
    CASE name = "value" -> value_ok(c, p, x)
      [] name = "gradient" -> rhs_ok(c, p)
      [] name = "gradient_no_rhs" -> expand_ok(c, p, x)
      [] name = "hessian" -> expand_ok(c, p, x)
      [] name = "hessian_full" -> expand_ok(c, p, x)

\* a call returning result and leaving the NLProblem as post when ok holds
Returns(call, ok, result, post) ==
    /\ ~failed
    /\ op' = call
    /\ IF ok
       THEN nl' = post /\ out' = result /\ failed' = FALSE
       ELSE nl' = nl /\ out' = NoResult /\ failed' = TRUE
    /\ UNCHANGED ctx
    /\ UNCHANGED cacheVars

InitNL ==
    /\ \E n_bases \in NBases, formulation \in Formulations,
          has_collision \in BOOLEAN, is_time_dependent \in BOOLEAN :
          \E boundary_nodes \in BoundarySets(n_bases * Dimension),
             dt0 \in (IF is_time_dependent THEN DtVals ELSE {0}) :
             /\ ctx = Context(n_bases, boundary_nodes, formulation,
                              has_collision, is_time_dependent)
             /\ nl = NLProblem(ctx, 0, dt0)
    /\ op = Call("NLProblem", <<>>, <<>>, 0)
    /\ out = NoResult
    /\ failed = FALSE
    /\ IdleCache

\* the solver calls init_timestep before the first step of a time-dependent
\* simulation, and again whenever it restarts a step (with another dt)
InitTimestep ==
    /\ ctx.is_time_dependent
    /\ \E x_prev \in InitialSolutions(nl.full_size), v_prev \in Velocities(nl.full_size), dt \in DtVals :
          Returns(Call("init_timestep", x_prev, v_prev, dt), TRUE, NoResult,
                  init_timestep(nl, x_prev, v_prev, dt))

\* the solver calls update_quantities at the end of a step, with the time
\* of the next one
UpdateQuantities ==
    \E t \in { u \in Times : u > nl.t }, x \in Vecs(nl.full_size) :
        Returns(Call("update_quantities", x, <<>>, t),
                update_quantities_ok(nl, x), NoResult, update_quantities(nl, t, x))

CurrentRhs ==
    Returns(Call("current_rhs", <<>>, <<>>, nl.t), rhs_ok(ctx, nl),
            current_rhs(ctx, nl)._current_rhs, current_rhs(ctx, nl))

ComputeCachedStiffness ==
    Returns(Call("compute_cached_stiffness", <<>>, <<>>, nl.t), TRUE, NoResult,
            compute_cached_stiffness(ctx, nl))

FullToReduced ==
    \E full \in Vecs(nl.full_size) :
        Returns(Call("full_to_reduced", full, <<>>, nl.t), TRUE,
                full_to_reduced(ctx, nl, full), nl)

ReducedToFull ==
    \E reduced \in Vecs(nl.reduced_size) :
        Returns(Call("reduced_to_full", reduced, <<>>, nl.t), rhs_ok(ctx, nl),
                reduced_to_full(ctx, nl, reduced), current_rhs(ctx, nl))

IsStepValid ==
    \E x0 \in Iterates, x1 \in Vecs(nl.full_size) :
        Returns(Call("is_step_valid", x0, x1, nl.t), is_step_valid_ok(ctx, nl, x0, x1),
                is_step_valid(ctx, nl, x0, x1), is_step_valid_state(ctx, nl, x0, x1))

Value ==
    \E x \in Iterates :
        Returns(Call("value", x, <<>>, nl.t), value_ok(ctx, nl, x),
                value(ctx, nl, x), value_state(ctx, nl, x))

Gradient ==
    \E x \in Iterates :
        Returns(Call("gradient", x, <<>>, nl.t), rhs_ok(ctx, nl),
                gradient(ctx, nl, x), gradient_state(ctx, nl, x))

GradientNoRhs ==
    \E x \in Iterates :
        Returns(Call("gradient_no_rhs", x, <<>>, nl.t), expand_ok(ctx, nl, x),
                gradient_no_rhs(ctx, nl, x), gradient_no_rhs_state(ctx, nl, x))

Hessian ==
    \E x \in Iterates :
        Returns(Call("hessian", x, <<>>, nl.t), expand_ok(ctx, nl, x),
                hessian(ctx, nl, x), hessian_state(ctx, nl, x))

HessianFull ==
    \E x \in Iterates :
        Returns(Call("hessian_full", x, <<>>, nl.t), expand_ok(ctx, nl, x),
                hessian_full(ctx, nl, x), hessian_full_state(ctx, nl, x))

NextNL ==
    \/ InitTimestep
    \/ UpdateQuantities
    \/ CurrentRhs
    \/ ComputeCachedStiffness
    \/ FullToReduced
    \/ ReducedToFull
    \/ IsStepValid
    \/ Value
    \/ Gradient
    \/ GradientNoRhs
    \/ Hessian
    \/ HessianFull

SpecNL == InitNL /\ [][NextNL]_vars

\* the full indices that are not boundary indices, in ascending order
FreeIndices(c, p) ==
    SortedSeq({ i \in 0..(p.full_size - 1) :
                  \A b \in 1..Len(c.boundary_nodes) : c.boundary_nodes[b] # i })

\* x agrees with the boundary values of current_rhs() at the boundary indices
AgreesOnBoundary(c, p, x) ==
    \A b \in 1..Len(c.boundary_nodes) :
        x[c.boundary_nodes[b] + 1] = current_rhs(c, p)._current_rhs[c.boundary_nodes[b] + 1]

\* the last call was the query called name and it returned
Returned(name) == ~failed /\ op.name = name

Queries == {"value", "gradient", "gradient_no_rhs", "hessian", "hessian_full"}

\* C3 as stated: a query called with a full-length x returns what it returns
\* when called with full_to_reduced(x), for every full-length x
\* (value, gradient and hessian; gradient and hessian results are reduced).
C3_SizeTransparency ==
    \A name \in {"value", "gradient", "hessian"} :
        (/\ Returned(name)
         /\ Len(op.x) = nl.full_size
         /\ rhs_ok(ctx, nl))
        => out = QueryResult(name, ctx, nl, full_to_reduced(ctx, nl, op.x))

\* C3, amended: value, gradient and hessian called with a full-length x whose
\* entries at the boundary indices are the boundary values of current_rhs()
\* return what they return when called with full_to_reduced(x).
C3_SizeTransparencyOnBoundaryValues ==
    \A name \in {"value", "gradient", "hessian"} :
        (/\ Returned(name)
         /\ Len(op.x) = nl.full_size
         /\ rhs_ok(ctx, nl)
         /\ AgreesOnBoundary(ctx, nl, op.x))
        => out = QueryResult(name, ctx, nl, full_to_reduced(ctx, nl, op.x))

\* value was called on a time-dependent nonlinear problem with boundary and
\* free degrees of freedom, at a full-length x carrying the boundary values
C3_Witness ==
    /\ Returned("value")
    /\ Len(op.x) = nl.full_size
    /\ 0 < nl.reduced_size /\ nl.reduced_size < nl.full_size
    /\ nl.is_time_dependent /\ ~is_linear(ctx.formulation)
    /\ AgreesOnBoundary(ctx, nl, op.x)
    /\ out # 0
    /\ out = value(ctx, nl, full_to_reduced(ctx, nl, op.x))

\* C4: on a problem that is not time-dependent, a step that calls
\* update_quantities(t, x) leaves every member of the NLProblem (x_prev,
\* v_prev, dt, t, rhs_computed, _current_rhs) as it was.
C4_UpdateQuantitiesNoOp ==
    [][(op'.name = "update_quantities" /\ ~ctx.is_time_dependent) => nl' = nl]_vars

\* update_quantities(1, x) returned on a problem that is not time-dependent,
\* whose rhs cache is valid and whose time is still 0
C4_Witness ==
    /\ Returned("update_quantities")
    /\ ~ctx.is_time_dependent
    /\ op.t = 1 /\ nl.t = 0
    /\ nl.rhs_computed
    /\ nl.x_prev = <<>>

\* the displaced boundary is_step_valid hands to the Contact Module for x
DisplacedBoundary(c, p, x) ==
    Displaced(c.boundary_nodes_pos, Reshape(expand(c, p, x), c.dimension))

\* C5: is_step_valid(x0, x1) returns true whenever the global contact switch
\* is off or has_collision is false; with both on it returns true exactly
\* when the Contact Module reports the motion between the two expanded
\* boundary configurations not collision-free.  The switch is a constant of
\* the build, so the settings the run does not have are evaluated on the
\* same call with the flags replaced.
C5_IsStepValid ==
    Returned("is_step_valid") =>
        /\ (ctx.disable_collision \/ ~ctx.has_collision) => out = TRUE
        /\ \A dc \in BOOLEAN, hc \in BOOLEAN :
              LET c == [ctx EXCEPT !.disable_collision = dc, !.has_collision = hc]
              IN rhs_ok(c, nl) =>
                    is_step_valid(c, nl, op.x, op.x1)
                    = IF ~dc /\ hc
                      THEN ~is_step_collision_free(DisplacedBoundary(c, nl, op.x),
                                                   DisplacedBoundary(c, nl, op.x1),
                                                   c.boundary_edges, c.boundary_triangles)
                      ELSE TRUE

\* is_step_valid returned true on a context with has_collision set, for a
\* motion the Contact Module calls collision-free (with the switch on the
\* same call returns false)
C5_Witness ==
    /\ Returned("is_step_valid")
    /\ ctx.has_collision /\ ctx.disable_collision
    /\ out = TRUE
    /\ rhs_ok(ctx, nl)
    /\ Len(op.x) = nl.reduced_size /\ nl.reduced_size < nl.full_size
    /\ ~is_step_valid([ctx EXCEPT !.disable_collision = FALSE], nl, op.x, op.x1)

\* C6: with the global contact switch off or has_collision false, every
\* query returns the same result on a context that differs only in
\* boundary_nodes_pos, boundary_edges and boundary_triangles.
C6_GeometryIndependence ==
    \A name \in Queries :
        Returned(name) =>
            \A c \in {ctx, [ctx EXCEPT !.disable_collision = FALSE, !.has_collision = FALSE]} :
                (c.disable_collision \/ ~c.has_collision) =>
                    \A g \in Geometries(ctx.n_bases) :
                        out = QueryResult(name, WithGeometry(c, g), nl, op.x)

\* hessian returned on a context with has_collision set, and there is a
\* context with other boundary positions and edges to compare with
C6_Witness ==
    /\ Returned("hessian")
    /\ ctx.has_collision
    /\ Len(op.x) = nl.reduced_size
    /\ nonZeros(out) > 0
    /\ \E g \in Geometries(ctx.n_bases) :
          /\ g.pos # ctx.boundary_nodes_pos
          /\ g.edges # ctx.boundary_edges
          /\ out = hessian(WithGeometry(ctx, g), nl, op.x)

\* the NLProblem with b as the cached boundary-values vector
WithBoundaryValues(p, b) == [p EXCEPT !._current_rhs = b, !.rhs_computed = TRUE]

\* C7: for every full vector x and every boundary-values vector b,
\* full_to_reduced(reduced_to_full(full_to_reduced(x), b)) = full_to_reduced(x).
C7_ReduceExpandReduce ==
    Returned("full_to_reduced") =>
        \A b \in Vecs(nl.full_size) \cup InitialSolutions(nl.full_size) :
            full_to_reduced(ctx, WithBoundaryValues(nl, b),
                            reduced_to_full(ctx, WithBoundaryValues(nl, b), out))
            = out

\* full_to_reduced returned a proper part of x, and some boundary-values
\* vector expands it to a vector other than x
C7_Witness ==
    /\ Returned("full_to_reduced")
    /\ 0 < Len(out) /\ Len(out) < Len(op.x)
    /\ \E b \in Vecs(nl.full_size) :
          /\ reduced_to_full(ctx, WithBoundaryValues(nl, b), out) # op.x
          /\ full_to_reduced(ctx, WithBoundaryValues(nl, b),
                             reduced_to_full(ctx, WithBoundaryValues(nl, b), out)) = out

\* C8: in every state of a constructed NLProblem
\* reduced_size + |boundary_nodes| = full_size, both sizes are the ones the
\* constructor computed from the context, and the index remap of hessian()
\* hands out exactly reduced_size dense indices.
C8_SizeInvariant ==
    op.name # "none" =>
        /\ nl.reduced_size + Len(ctx.boundary_nodes) = nl.full_size
        /\ nl.full_size = ctx.n_bases * ctx.dimension
        /\ nl.reduced_size = ctx.n_bases * ctx.dimension - Len(ctx.boundary_nodes)
        /\ Cardinality({ i \in 1..nl.full_size :
                           hessian_indices(ctx.boundary_nodes, nl.full_size, 0, 0, 0)[i] >= 0 })
           = nl.reduced_size

\* a time-dependent problem with boundary and free degrees of freedom, after
\* init_timestep, queries and update_quantities
C8_Witness ==
    /\ Returned("update_quantities")
    /\ nl.is_time_dependent /\ nl.t = 1
    /\ nl.cached_stiffness.rows = nl.full_size
    /\ 0 < Len(ctx.boundary_nodes) /\ Len(ctx.boundary_nodes) < nl.full_size

\* m is a valid compressed column-major structure
WellFormed(m) ==
    /\ Len(m.outer) = m.cols + 1
    /\ m.outer[1] = 0
    /\ m.outer[m.cols + 1] = Len(m.inner)
    /\ Len(m.vals) = Len(m.inner)
    /\ \A c \in 1..m.cols : m.outer[c] <= m.outer[c + 1]
    /\ \A k \in 1..Len(m.inner) : m.inner[k] \in 0..(m.rows - 1)
    /\ \A c \in 1..m.cols :
          \A k \in (m.outer[c] + 1)..(m.outer[c + 1] - 1) : m.inner[k] < m.inner[k + 1]

Symmetric(m) ==
    /\ \A q \in Positions(m) : <<q[2], q[1]>> \in Positions(m)
    /\ \A q \in Positions(m) : Coeff(m, q[1], q[2]) = Coeff(m, q[2], q[1])

\* reduced is full restricted to the rows and columns listed in f
IsRestriction(reduced, full, f) ==
    /\ reduced.rows = Len(f) /\ reduced.cols = Len(f)
    /\ \A r \in 1..Len(f), c \in 1..Len(f) :
          /\ Coeff(reduced, r - 1, c - 1) = Coeff(full, f[r], f[c])
          /\ <<r - 1, c - 1>> \in Positions(reduced) <=> <<f[r], f[c]>> \in Positions(full)
    /\ Positions(reduced) \subseteq (0..(Len(f) - 1)) \X (0..(Len(f) - 1))

\* C9: hessian(x) is a reduced_size x reduced_size matrix in valid compressed
\* form whose entry (r, c) is entry (f(r), f(c)) of hessian_full(x), f listing
\* the non-boundary indices in ascending order; entries of hessian_full with a
\* boundary row or column are dropped; a symmetric hessian_full gives a
\* symmetric result.
C9_HessianIsRestriction ==
    Returned("hessian") =>
        /\ Len(FreeIndices(ctx, nl)) = nl.reduced_size
        /\ IsRestriction(out, hessian_full(ctx, nl, op.x), FreeIndices(ctx, nl))
        /\ WellFormed(out)
        /\ Symmetric(hessian_full(ctx, nl, op.x)) => Symmetric(out)

\* hessian returned a matrix with off-diagonal entries for a problem whose
\* boundary indices lie between free ones, and hessian_full has entries in
\* boundary rows
C9_Witness ==
    /\ Returned("hessian")
    /\ ctx.boundary_nodes = <<1, 3>>
    /\ nl.is_time_dependent /\ ~is_linear(ctx.formulation)
    /\ nonZeros(out) = 2
    /\ nonZeros(hessian_full(ctx, nl, op.x)) > nonZeros(out)
    /\ Symmetric(hessian_full(ctx, nl, op.x))
    /\ \E k \in 1..Len(out.vals) : out.vals[k] # 0

\* C17: current_rhs() is lazy and cached.  In every step: a valid cache that
\* stays valid keeps its vector (no call recomputes it, whatever changed in
\* between); a valid cache becomes invalid only by update_quantities on a
\* time-dependent problem, which always invalidates; a step that finds the
\* cache invalid and leaves it valid has stored the vector computed from the
\* collaborators for the current t, x_prev, v_prev and dt; current_rhs()
\* returns the cached vector; and gradient, reduced_to_full and every query
\* given a reduced-length x leave the cache valid.
C17_LazyRhs ==
    [][/\ (nl.rhs_computed /\ nl'.rhs_computed) => nl'._current_rhs = nl._current_rhs
       /\ (nl.rhs_computed /\ ~nl'.rhs_computed) =>
             (op'.name = "update_quantities" /\ ctx.is_time_dependent)
       /\ (op'.name = "update_quantities" /\ ctx.is_time_dependent /\ ~failed') =>
             ~nl'.rhs_computed
       /\ (~nl.rhs_computed /\ nl'.rhs_computed) =>
             nl'._current_rhs = compute_rhs(ctx, nl)
       /\ (op'.name = "current_rhs" /\ ~failed') =>
             (nl'.rhs_computed /\ out' = nl'._current_rhs)
       /\ (op'.name \in {"gradient", "reduced_to_full"} /\ ~failed') => nl'.rhs_computed
       /\ (/\ op'.name \in Queries
           /\ Len(op'.x) = nl.reduced_size
           /\ ~failed') => nl'.rhs_computed]_vars

\* current_rhs() returned the cached vector after the rhs had been
\* invalidated and recomputed at time 1 and init_timestep had then changed
\* the timestep data: a recomputation would give another vector
C17_Witness ==
    /\ Returned("current_rhs")
    /\ nl.t = 1
    /\ nl.rhs_computed
    /\ out = nl._current_rhs
    /\ out # compute_rhs(ctx, nl)

\* C18: a step in which update_quantities(t, x) returns on a time-dependent
\* problem sets v_prev to (x - x_prev) / dt with the x_prev held before the
\* call, x_prev to x, the rhs cache invalid and the time to t, and leaves
\* dt, the cached rhs vector, the cached stiffness and the sizes as they were.
C18_UpdateQuantities ==
    [][(op'.name = "update_quantities" /\ ctx.is_time_dependent /\ ~failed') =>
          /\ Len(nl'.v_prev) = Len(op'.x)
          /\ \A k \in 1..Len(op'.x) : nl'.v_prev[k] * nl.dt = op'.x[k] - nl.x_prev[k]
          /\ nl'.x_prev = op'.x
          /\ ~nl'.rhs_computed
          /\ nl'.t = op'.t
          /\ nl'.dt = nl.dt
          /\ nl'._current_rhs = nl._current_rhs
          /\ nl'.cached_stiffness = nl.cached_stiffness
          /\ nl'.full_size = nl.full_size /\ nl'.reduced_size = nl.reduced_size]_vars

\* update_quantities(1, x) returned on a time-dependent problem whose rhs
\* was cached: the velocity is neither x / dt nor zero, the cache is invalid
C18_Witness ==
    /\ Returned("update_quantities")
    /\ ctx.is_time_dependent
    /\ nl.t = 1 /\ nl.dt = 4
    /\ nl.x_prev = op.x
    /\ nl._current_rhs # <<>> /\ ~nl.rhs_computed
    /\ \E k \in 1..Len(op.x) : nl.v_prev[k] # 0 /\ nl.v_prev[k] * nl.dt # op.x[k]

\* C19: a step that calls init_timestep(x_prev, v_prev, dt) stores the three
\* arguments and leaves the rhs validity flag, the cached rhs vector, the
\* current time and the cached stiffness as they were.
C19_InitTimestep ==
    [][op'.name = "init_timestep" =>
          /\ nl'.x_prev = op'.x /\ nl'.v_prev = op'.x1 /\ nl'.dt = op'.t
          /\ nl'.rhs_computed = nl.rhs_computed
          /\ nl'._current_rhs = nl._current_rhs
          /\ nl'.t = nl.t
          /\ nl'.cached_stiffness = nl.cached_stiffness]_vars

\* init_timestep returned on a problem at time 1 with a cached stiffness and
\* a valid cached rhs, which it left in place although the rhs computed from
\* the new timestep data is another vector
C19_Witness ==
    /\ Returned("init_timestep")
    /\ nl.t = 1
    /\ nl.rhs_computed
    /\ nl._current_rhs # compute_rhs(ctx, nl)
    /\ nl.cached_stiffness.rows = nl.full_size
    /\ nl.x_prev = op.x /\ nl.v_prev = op.x1 /\ nl.dt = op.t

\* the elastic Hessian of hessian_full at the expansion of x: the linear
\* stiffness for a linear formulation, the assembled nonlinear Hessian otherwise
ElasticHessian(c, p, x) ==
    IF is_linear(c.rhs_formulation)
    THEN assemble_problem(c.formulation, p.full_size)
    ELSE assemble_energy_hessian(c.rhs_formulation, expand(c, p, x))

\* 1e8 times the contact-barrier Hessian at the expansion of x
BarrierHessian(c, p, x) ==
    MatScale(barrier_weight, collision_hessian(c, DisplacedBoundary(c, p, x)))

\* the context with the global contact switch on and has_collision set
WithContact(c) == [c EXCEPT !.disable_collision = FALSE, !.has_collision = TRUE]

\* C20 as stated: on a time-dependent problem hessian_full(x) is the elastic
\* Hessian plus dt * dt / 2 times the mass matrix (contact does not apply in
\* a run; with contact, plus 1e8 times the barrier Hessian).
C20_HessianFullMassScaled ==
    (Returned("hessian_full") /\ ctx.is_time_dependent) =>
        /\ out = MatAdd(ElasticHessian(ctx, nl, op.x),
                        MatScale((nl.dt * nl.dt) \div 2, ctx.mass))
        /\ hessian_full(WithContact(ctx), nl, op.x)
           = MatAdd(MatAdd(ElasticHessian(ctx, nl, op.x),
                           MatScale((nl.dt * nl.dt) \div 2, ctx.mass)),
                    BarrierHessian(WithContact(ctx), nl, op.x))

\* C20, amended: on a time-dependent problem hessian_full(x) is dt * dt / 2
\* times the elastic Hessian (the cached linear stiffness for a linear
\* formulation, the freshly assembled nonlinear Hessian otherwise) plus the
\* mass matrix, unscaled; plus 1e8 times the contact-barrier Hessian when
\* contact applies (evaluated on the same call with the contact flags set).
C20_HessianFullElasticScaled ==
    (Returned("hessian_full") /\ ctx.is_time_dependent) =>
        /\ out = MatAdd(MatScale((nl.dt * nl.dt) \div 2, ElasticHessian(ctx, nl, op.x)),
                        ctx.mass)
        /\ is_linear(ctx.rhs_formulation) =>
              nl.cached_stiffness = ElasticHessian(ctx, nl, op.x)
        /\ hessian_full(WithContact(ctx), nl, op.x)
           = MatAdd(MatAdd(MatScale((nl.dt * nl.dt) \div 2, ElasticHessian(ctx, nl, op.x)),
                           ctx.mass),
                    BarrierHessian(WithContact(ctx), nl, op.x))

\* hessian_full returned on a time-dependent nonlinear problem with dt = 4,
\* for a reduced-length x, and the barrier Hessian at x is not zero
C20_Witness ==
    /\ Returned("hessian_full")
    /\ ctx.is_time_dependent /\ ~is_linear(ctx.rhs_formulation)
    /\ nl.dt = 4
    /\ Len(op.x) = nl.reduced_size /\ 0 < nl.reduced_size /\ nl.reduced_size < nl.full_size
    /\ out # ElasticHessian(ctx, nl, op.x)
    /\ ~AllZero(BarrierHessian(WithContact(ctx), nl, op.x))
    /\ hessian_full(WithContact(ctx), nl, op.x) # out

\* the cached rhs of p is not stale: if marked valid, it is the vector
\* computed from the current t, x_prev, v_prev and dt of p
RhsFresh(c, p) == p.rhs_computed => p._current_rhs = compute_rhs(c, p)

\* C24 as stated: on a time-dependent problem, after any sequence of
\* init_timestep, update_quantities and evaluation calls, a cached rhs marked
\* valid is the rhs computed from the current (t, x_prev, v_prev, dt), and
\* current_rhs() returns that vector.
C24_RhsNeverStale ==
    ctx.is_time_dependent =>
        /\ RhsFresh(ctx, nl)
        /\ Returned("current_rhs") => out = compute_rhs(ctx, nl)

\* C24, amended: on a time-dependent problem a cached rhs that is not stale
\* stays not stale through every call other than init_timestep on a valid
\* cache (update_quantities, the evaluation calls, init_timestep while the
\* cache is invalid), and current_rhs() then returns the rhs computed from
\* the current (t, x_prev, v_prev, dt); update_quantities leaves the cache
\* not stale whatever it was before; init_timestep on a valid cache keeps
\* the cached vector, which current_rhs() goes on returning until the next
\* update_quantities.
C24_RhsFreshUnlessInitTimestepOnValidCache ==
    [][ctx.is_time_dependent =>
          /\ (RhsFresh(ctx, nl) /\ ~(op'.name = "init_timestep" /\ nl.rhs_computed)) =>
                RhsFresh(ctx, nl')
          /\ (RhsFresh(ctx, nl) /\ op'.name = "current_rhs" /\ ~failed') =>
                out' = compute_rhs(ctx, nl')
          /\ (op'.name = "update_quantities" /\ ~failed') => RhsFresh(ctx, nl')
          /\ (op'.name = "init_timestep" /\ nl.rhs_computed) =>
                (nl'.rhs_computed /\ nl'._current_rhs = nl._current_rhs)
          /\ (~RhsFresh(ctx, nl) /\ op'.name # "update_quantities") =>
                (nl'.rhs_computed /\ nl'._current_rhs = nl._current_rhs)]_vars

\* current_rhs() returned the freshly computed rhs at time 1, after an
\* update_quantities had invalidated a cached rhs, on a time-dependent
\* problem with boundary and free degrees of freedom
C24_Witness ==
    /\ Returned("current_rhs")
    /\ ctx.is_time_dependent
    /\ nl.t = 1 /\ nl.dt = 4
    /\ 0 < Len(ctx.boundary_nodes) /\ Len(ctx.boundary_nodes) < nl.full_size
    /\ nl.rhs_computed
    /\ out = compute_rhs(ctx, nl)
    /\ out # compute_rhs(ctx, [nl EXCEPT !.t = 0])
    /\ out # compute_rhs(ctx, [nl EXCEPT !.dt = 2])

(***************************************************************************)
(* Scenario SpecStiffness: an NLProblem is constructed on a context and    *)
(* called by the solver in any order, as in SpecNL; cursor counts the      *)
(* calls of assembler.assemble_problem made so far, and pc tells whether   *)
(* the last call assembled the linear stiffness ("assembled"), went        *)
(* through compute_cached_stiffness() without assembling ("reused"),       *)
(* assembled a nonlinear Hessian ("fresh") or did none of these ("idle").  *)
(***************************************************************************)
\* compute_cached_stiffness() that assembles whenever the formulation is linear
stiffness_assemblies_unguarded(c, p) ==
    IF is_linear(c.formulation) THEN 1 ELSE 0

\* the number of assembler.assemble_problem calls compute_cached_stiffness() makes
stiffness_assemblies(c, p) ==
    IF p.cached_stiffness.rows * p.cached_stiffness.cols = 0
    THEN IF is_linear(c.formulation) THEN 1 ELSE 0
    ELSE 0

\* the number of assembler.assemble_problem calls hessian_full(x) makes
hessian_full_assemblies(c, p, x) ==
    IF is_linear(c.rhs_formulation)
    THEN stiffness_assemblies(c, expand_state(c, p, x))
    ELSE 0

\* what the last call did with the stiffness, for a call that made n
\* assemble_problem calls
StiffnessPhase(c, n) ==
    IF n > 0 THEN "assembled"
    ELSE IF is_linear(c.rhs_formulation) THEN "reused" ELSE "fresh"

\* a call returning result and leaving the NLProblem as post when ok holds,
\* after n calls of assemble_problem
StiffReturns(call, ok, result, post, n, phase) ==
    /\ ~failed
    /\ op' = call
    /\ IF ok
       THEN /\ nl' = post /\ out' = result /\ failed' = FALSE
            /\ cursor' = cursor + n /\ pc' = phase
       ELSE /\ nl' = nl /\ out' = NoResult /\ failed' = TRUE
            /\ cursor' = cursor /\ pc' = "idle"
    /\ UNCHANGED ctx
    /\ UNCHANGED <<cache, ret, log, snap, acc, cnt, mark>>

StiffInitTimestep ==
    /\ ctx.is_time_dependent
    /\ \E x_prev \in InitialSolutions(nl.full_size), v_prev \in Velocities(nl.full_size), dt \in DtVals :
          StiffReturns(Call("init_timestep", x_prev, v_prev, dt), TRUE, NoResult,
                       init_timestep(nl, x_prev, v_prev, dt), 0, "idle")

StiffUpdateQuantities ==
    \E t \in { u \in Times : u > nl.t }, x \in Vecs(nl.full_size) :
        StiffReturns(Call("update_quantities", x, <<>>, t),
                     update_quantities_ok(nl, x), NoResult, update_quantities(nl, t, x),
                     0, "idle")

StiffComputeCachedStiffness ==
    StiffReturns(Call("compute_cached_stiffness", <<>>, <<>>, nl.t), TRUE, NoResult,
                 compute_cached_stiffness(ctx, nl),
                 stiffness_assemblies(ctx, nl),
                 IF stiffness_assemblies(ctx, nl) > 0 THEN "assembled" ELSE "idle")

\* value, gradient and gradient_no_rhs make no call of assemble_problem
StiffQuery ==
    \E name \in {"value", "gradient", "gradient_no_rhs"}, x \in Iterates :
        StiffReturns(Call(name, x, <<>>, nl.t), QueryOk(name, ctx, nl, x),
                     QueryResult(name, ctx, nl, x),
                     CASE name = "value" -> value_state(ctx, nl, x)
                       [] name = "gradient" -> gradient_state(ctx, nl, x)
                       [] name = "gradient_no_rhs" -> gradient_no_rhs_state(ctx, nl, x),
                     0, "idle")

StiffIsStepValid ==
    \E x0 \in Iterates, x1 \in Vecs(nl.full_size) :
        StiffReturns(Call("is_step_valid", x0, x1, nl.t), is_step_valid_ok(ctx, nl, x0, x1),
                     is_step_valid(ctx, nl, x0, x1), is_step_valid_state(ctx, nl, x0, x1),
                     0, "idle")

StiffHessian ==
    \E x \in Iterates :
        StiffReturns(Call("hessian", x, <<>>, nl.t), expand_ok(ctx, nl, x),
                     hessian(ctx, nl, x), hessian_state(ctx, nl, x),
                     hessian_full_assemblies(ctx, nl, x),
                     StiffnessPhase(ctx, hessian_full_assemblies(ctx, nl, x)))

StiffHessianFull ==
    \E x \in Iterates :
        StiffReturns(Call("hessian_full", x, <<>>, nl.t), expand_ok(ctx, nl, x),
                     hessian_full(ctx, nl, x), hessian_full_state(ctx, nl, x),
                     hessian_full_assemblies(ctx, nl, x),
                     StiffnessPhase(ctx, hessian_full_assemblies(ctx, nl, x)))

NextStiffness ==
    \/ StiffInitTimestep
    \/ StiffUpdateQuantities
    \/ StiffComputeCachedStiffness
    \/ StiffQuery
    \/ StiffIsStepValid
    \/ StiffHessian
    \/ StiffHessianFull

SpecStiffness == InitNL /\ [][NextStiffness]_vars

\* the matrix is not yet assembled: cached_stiffness.size() == 0
Unassembled(p) == p.cached_stiffness.rows * p.cached_stiffness.cols = 0

\* C21: for a linear formulation the linear stiffness is assembled at most
\* once: the count of assemble_problem calls never exceeds one; a hessian or
\* hessian_full call that returns while nothing is stored assembles and
\* stores the matrix; once stored, the matrix is never changed or dropped by
\* any call (init_timestep, update_quantities, the queries, the time-step
\* scaling and the mass term of hessian_full, nor the same call made with
\* the contact flags set); and every later hessian_full call builds its
\* result, at any iterate, from the stored matrix without assembling again.
C21_StiffnessAssembledOnce ==
    [][is_linear(ctx.formulation) =>
          /\ cursor' <= 1
          /\ cursor' # cursor =>
                /\ Unassembled(nl)
                /\ op'.name \in {"hessian", "hessian_full", "compute_cached_stiffness"}
                /\ nl'.cached_stiffness = assemble_problem(ctx.formulation, nl.full_size)
          /\ (Unassembled(nl) /\ op'.name \in {"hessian", "hessian_full"} /\ ~failed') =>
                (cursor' = cursor + 1 /\ ~Unassembled(nl'))
          /\ ~Unassembled(nl) =>
                (nl'.cached_stiffness = nl.cached_stiffness /\ cursor' = cursor)
          /\ (~Unassembled(nl) /\ op'.name = "hessian_full" /\ ~failed') =>
                /\ out' = hessian_timed(ctx, nl', nl.cached_stiffness)
                /\ hessian_full_state(WithContact(ctx), nl, op'.x).cached_stiffness
                   = nl.cached_stiffness]_vars

\* hessian_full returned a scaled matrix on a linear time-dependent problem
\* at time 1, built from the stiffness an earlier call had assembled; the
\* stored matrix is still the assembled one
C21_Witness ==
    /\ Returned("hessian_full")
    /\ pc = "reused" /\ cursor = 1
    /\ is_linear(ctx.formulation) /\ ctx.is_time_dependent
    /\ nl.t = 1 /\ nl.dt = 4
    /\ out # nl.cached_stiffness
    /\ nl.cached_stiffness = assemble_problem(ctx.formulation, nl.full_size)

(***************************************************************************)
(* Scenario SpecTimestep: an NLProblem is constructed on a context;        *)
(* init_timestep and update_quantities start a timestep, within which the  *)
(* solver calls value, gradient, gradient_no_rhs, hessian, hessian_full    *)
(* and is_step_valid any number of times, in any order, at any iterates.   *)
(* mark.start is the NLProblem as it was when the timestep started; pc     *)
(* tells whether no query ("start"), one query ("first") or more than one  *)
(* ("later") has been called in the timestep.                              *)
(***************************************************************************)
\* the result of the call named call.name with the arguments of call
CallResult(call, c, p) ==
    IF call.name = "is_step_valid"
    THEN is_step_valid(c, p, call.x, call.x1)
    ELSE QueryResult(call.name, c, p, call.x)

\* the call does not fail
CallOk(call, c, p) ==
    IF call.name = "is_step_valid"
    THEN is_step_valid_ok(c, p, call.x, call.x1)
    ELSE QueryOk(call.name, c, p, call.x)

\* NLProblem after the call
CallState(call, c, p) ==
    CASE call.name = "is_step_valid" -> is_step_valid_state(c, p, call.x, call.x1)
      [] call.name = "value" -> value_state(c, p, call.x)
      [] call.name = "gradient" -> gradient_state(c, p, call.x)
      [] call.name = "gradient_no_rhs" -> gradient_no_rhs_state(c, p, call.x)
      [] call.name = "hessian" -> hessian_state(c, p, call.x)
      [] call.name = "hessian_full" -> hessian_full_state(c, p, call.x)

\* an advance call (init_timestep, update_quantities): a timestep starts
\* with the NLProblem the call leaves
TimestepStarts(call, ok, post) ==
    /\ ~failed
    /\ op' = call
    /\ out' = NoResult
    /\ pc' = "start"
    /\ IF ok
       THEN nl' = post /\ mark' = [start |-> post] /\ failed' = FALSE
       ELSE nl' = nl /\ mark' = mark /\ failed' = TRUE
    /\ UNCHANGED ctx
    /\ UNCHANGED <<cache, ret, log, cursor, snap, acc, cnt>>

InitTimestepScenario ==
    /\ \E n_bases \in NBases, formulation \in Formulations,
          is_time_dependent \in BOOLEAN :
          \E boundary_nodes \in BoundarySets(n_bases * Dimension),
             dt0 \in (IF is_time_dependent THEN DtVals ELSE {0}) :
             /\ ctx = Context(n_bases, boundary_nodes, formulation,
                              TRUE, is_time_dependent)
             /\ nl = NLProblem(ctx, 0, dt0)
    /\ op = Call("NLProblem", <<>>, <<>>, 0)
    /\ out = NoResult
    /\ failed = FALSE
    /\ cache = [id \in CacheIds |-> SpareMatrixCache(0)]
    /\ ret = NoMatrix
    /\ pc = "start"
    /\ log = [id \in CacheIds |-> <<>>]
    /\ cursor = 0
    /\ snap = [id \in CacheIds |-> NoMatrix]
    /\ acc = [id \in CacheIds |-> NoSums]
    /\ cnt = [id \in CacheIds |-> 0]
    /\ mark = [start |-> nl]

TsInitTimestep ==
    /\ ctx.is_time_dependent
    /\ \E x_prev \in InitialSolutions(nl.full_size), v_prev \in Velocities(nl.full_size), dt \in DtVals :
          TimestepStarts(Call("init_timestep", x_prev, v_prev, dt), TRUE,
                         init_timestep(nl, x_prev, v_prev, dt))

TsUpdateQuantities ==
    \E t \in { u \in Times : u > nl.t }, x \in Vecs(nl.full_size) :
        TimestepStarts(Call("update_quantities", x, <<>>, t),
                       update_quantities_ok(nl, x), update_quantities(nl, t, x))

\* a query of the timestep: value, gradient, gradient_no_rhs, hessian or
\* hessian_full at x
TsQuery ==
    \E name \in Queries, x \in Iterates :
        LET call == Call(name, x, <<>>, nl.t)
        IN /\ ~failed
           /\ op' = call
           /\ pc' = IF pc = "start" THEN "first" ELSE "later"
           /\ IF CallOk(call, ctx, nl)
              THEN /\ nl' = CallState(call, ctx, nl)
                   /\ out' = CallResult(call, ctx, nl)
                   /\ failed' = FALSE
              ELSE nl' = nl /\ out' = NoResult /\ failed' = TRUE
           /\ UNCHANGED ctx
           /\ UNCHANGED <<cache, ret, log, cursor, snap, acc, cnt, mark>>

TsIsStepValid ==
    \E x0 \in Iterates, x1 \in Vecs(nl.full_size) :
        LET call == Call("is_step_valid", x0, x1, nl.t)
        IN /\ ~failed
           /\ op' = call
           /\ pc' = IF pc = "start" THEN "first" ELSE "later"
           /\ IF CallOk(call, ctx, nl)
              THEN /\ nl' = CallState(call, ctx, nl)
                   /\ out' = CallResult(call, ctx, nl)
                   /\ failed' = FALSE
              ELSE nl' = nl /\ out' = NoResult /\ failed' = TRUE
           /\ UNCHANGED ctx
           /\ UNCHANGED <<cache, ret, log, cursor, snap, acc, cnt, mark>>

NextTimestep ==
    \/ TsInitTimestep
    \/ TsUpdateQuantities
    \/ TsQuery
    \/ TsIsStepValid

SpecTimestep == InitTimestepScenario /\ [][NextTimestep]_vars

\* the data members of p other than the rhs cache and the stiffness cache
TimestepData(p) ==
    [full_size |-> p.full_size, reduced_size |-> p.reduced_size, t |-> p.t,
     is_time_dependent |-> p.is_time_dependent,
     x_prev |-> p.x_prev, v_prev |-> p.v_prev, dt |-> p.dt]

\* C22: after any number of queries (value, gradient, gradient_no_rhs,
\* hessian, hessian_full, is_step_valid) since the timestep started, x_prev,
\* v_prev, dt, the time and the sizes are those of the start; the rhs cache
\* and the stiffness cache are as at the start or have been populated (a
\* valid rhs stays valid with its vector, a stored stiffness stays stored);
\* and the last query returned what it returns when it is the first call of
\* the timestep, and failed only if it fails as the first call.
C22_QueriesOnlyPopulateCaches ==
    /\ TimestepData(nl) = TimestepData(mark.start)
    /\ mark.start.rhs_computed =>
          (nl.rhs_computed /\ nl._current_rhs = mark.start._current_rhs)
    /\ nl.rhs_computed => nl._current_rhs = current_rhs(ctx, mark.start)._current_rhs
    /\ ~Unassembled(mark.start) => nl.cached_stiffness = mark.start.cached_stiffness
    /\ ~Unassembled(nl) =>
          nl.cached_stiffness = compute_cached_stiffness(ctx, mark.start).cached_stiffness
    /\ (pc # "start" /\ ~failed) => out = CallResult(op, ctx, mark.start)
    /\ (pc # "start") => (failed <=> ~CallOk(op, ctx, mark.start))

\* gradient returned at a reduced-length x at time 1 on a linear
\* time-dependent problem, after other queries of the same timestep had
\* populated the rhs cache and the stiffness cache, both empty at its start
C22_Witness ==
    /\ Returned("gradient") /\ pc = "later"
    /\ ctx.is_time_dependent /\ is_linear(ctx.formulation)
    /\ nl.t = 1
    /\ Len(op.x) = nl.reduced_size /\ 0 < nl.reduced_size /\ nl.reduced_size < nl.full_size
    /\ ~mark.start.rhs_computed /\ Unassembled(mark.start)
    /\ nl.rhs_computed /\ ~Unassembled(nl)

(***************************************************************************)
(* Scenario SpecPrune: a cache a receives add_value calls with prune()     *)
(* calls at any points in between, and get_matrix calls; with              *)
(* get_matrix(true) it becomes warm and receives further add_value, prune  *)
(* and get_matrix calls.  log["a"] is the sequence of the triplets added   *)
(* in the cold phase; cursor counts the prune() calls that found pending   *)
(* triplets; pc is the last call made.                                     *)
(***************************************************************************)
\* the longest add_value sequence of the cold phase, and of the warm phase
MaxPruneAdds == 3

MaxPrunedWarmAdds == 1

\* the largest count of prune() calls with pending triplets recorded
MaxPrunes == 2

InitPrune ==
    /\ IdleNL
    /\ \E n \in Sizes : cache = [id \in CacheIds |-> SpareMatrixCache(n)]
    /\ failed = FALSE
    /\ ret = NoMatrix
    /\ pc = "none"
    /\ log = [id \in CacheIds |-> <<>>]
    /\ cursor = 0
    /\ snap = [id \in CacheIds |-> NoMatrix]
    /\ acc = [id \in CacheIds |-> NoSums]
    /\ cnt = [id \in CacheIds |-> 0]
    /\ mark = NoMark

\* a.add_value(i, j, v), cold phase
PruneColdAdd ==
    /\ UNCHANGED nlVars
    /\ IsCold(cache["a"])
    /\ Len(log["a"]) < MaxPruneAdds
    /\ \E i \in Idx("a"), j \in Idx("a"), v \in AddVals :
          /\ CallAddValue("a", i, j, v)
          /\ log' = [log EXCEPT !["a"] = Append(@, Triplet(i, j, v))]
    /\ pc' = "add_value"
    /\ UNCHANGED <<cursor, snap, acc, cnt, mark>>

\* a.add_value(i, j, v), warm phase: any position, in the pattern or not
PruneWarmAdd ==
    /\ UNCHANGED nlVars
    /\ ~IsCold(cache["a"])
    /\ cnt["a"] < MaxPrunedWarmAdds
    /\ \E i \in Idx("a"), j \in Idx("a"), v \in AddVals : CallAddValue("a", i, j, v)
    /\ cnt' = [cnt EXCEPT !["a"] = @ + 1]
    /\ pc' = "add_value"
    /\ UNCHANGED <<log, cursor, snap, acc, mark>>

\* a.prune()
PrunePrune ==
    /\ UNCHANGED nlVars
    /\ CallPrune("a")
    /\ pc' = "prune"
    /\ cursor' = IF IsCold(cache["a"]) /\ cache["a"].entries_ # <<>> /\ cursor < MaxPrunes
                 THEN cursor + 1 ELSE cursor
    /\ UNCHANGED <<log, snap, acc, cnt, mark>>

\* a.get_matrix(compute_mapping)
PruneGetMatrix ==
    /\ UNCHANGED nlVars
    /\ \E compute_mapping \in BOOLEAN : CallGetMatrix("a", compute_mapping)
    /\ pc' = "get_matrix"
    /\ UNCHANGED <<log, cursor, snap, acc, cnt, mark>>

\* a.get_matrix() aborting (empty pattern, checked containers)
PruneGetMatrixAbort ==
    /\ UNCHANGED nlVars
    /\ CallGetMatrixAbort("a")
    /\ pc' = "abort"
    /\ UNCHANGED <<log, cursor, snap, acc, cnt, mark>>

NextPrune ==
    \/ PruneColdAdd
    \/ PruneWarmAdd
    \/ PrunePrune
    \/ PruneGetMatrix
    \/ PruneGetMatrixAbort

SpecPrune == InitPrune /\ [][NextPrune]_vars

\* the sum of the values of the triplets of entries at position (i, j)
PendingSum(entries, i, j) ==
    SeqSum([k \in 1..Len(entries) |->
              IF entries[k].row = i /\ entries[k].col = j THEN entries[k].value ELSE 0])

\* the positions of the triplets of entries
PendingPositions(entries) ==
    { <<entries[k].row, entries[k].col>> : k \in 1..Len(entries) }

\* the matrix get_matrix() returns for a cache of size n that received the
\* add_value calls of entries and no prune() call
Unpruned(n, entries) ==
    get_matrix([SpareMatrixCache(n) EXCEPT !.entries_ = entries], FALSE).mat_

MaxFreezeAdds == 3

\* values passed to add_value (opposite signs: a position of the pattern
\* may hold the value 0)
FreezeVals == {-1, 1}

\* the value of mark.call before any add_value or get_matrix call
NoCall == [row |-> 0, col |-> 0, compute_mapping |-> FALSE]

InitFreeze ==
    /\ IdleNL
    /\ \E n \in Sizes : cache = [id \in CacheIds |-> SpareMatrixCache(n)]
    /\ failed = FALSE
    /\ ret = NoMatrix
    /\ pc = "none"
    /\ log = [id \in CacheIds |-> <<>>]
    /\ cursor = 0
    /\ snap = [id \in CacheIds |-> NoMatrix]
    /\ acc = [id \in CacheIds |-> NoSums]
    /\ cnt = [id \in CacheIds |-> 0]
    /\ mark = [call |-> NoCall, zeroed |-> FALSE]

\* a.add_value(i, j, v), cold or warm, at any position of the matrix
FreezeAddValue ==
    /\ UNCHANGED nlVars
    /\ cnt["a"] < MaxFreezeAdds
    /\ \E i \in Idx("a"), j \in Idx("a"), v \in FreezeVals :
          /\ CallAddValue("a", i, j, v)
          /\ mark' = [mark EXCEPT !.call = [row |-> i, col |-> j, compute_mapping |-> FALSE]]
    /\ cnt' = [cnt EXCEPT !["a"] = @ + 1]
    /\ pc' = "add_value"
    /\ UNCHANGED <<log, cursor, snap, acc>>

\* a.prune()
FreezePrune ==
    /\ UNCHANGED nlVars
    /\ CallPrune("a")
    /\ pc' = "prune"
    /\ UNCHANGED <<log, cursor, snap, acc, cnt, mark>>

\* a.set_zero()
FreezeSetZero ==
    /\ UNCHANGED nlVars
    /\ CallSetZero("a")
    /\ pc' = "set_zero"
    /\ mark' = [mark EXCEPT !.zeroed = ~IsCold(cache["a"])]
    /\ UNCHANGED <<log, cursor, snap, acc, cnt>>

\* a.get_matrix(compute_mapping)
FreezeGetMatrix ==
    /\ UNCHANGED nlVars
    /\ \E compute_mapping \in BOOLEAN :
          /\ CallGetMatrix("a", compute_mapping)
          /\ mark' = [mark EXCEPT !.call = [row |-> 0, col |-> 0,
                                            compute_mapping |-> compute_mapping]]
    /\ pc' = "get_matrix"
    /\ UNCHANGED <<log, cursor, snap, acc, cnt>>

\* a.get_matrix() aborting (empty pattern, checked containers)
FreezeGetMatrixAbort ==
    /\ UNCHANGED nlVars
    /\ CallGetMatrixAbort("a")
    /\ pc' = "abort"
    /\ UNCHANGED <<log, cursor, snap, acc, cnt, mark>>

NextFreeze ==
    \/ FreezeAddValue
    \/ FreezePrune
    \/ FreezeSetZero
    \/ FreezeGetMatrix
    \/ FreezeGetMatrixAbort

SpecFreeze == InitFreeze /\ [][NextFreeze]_vars

\* the pattern of a warm cache: the positions (row, col) add_value finds in
\* mapping_
MappingPattern(c) ==
    UNION { { <<i, c.mapping_[i + 1][k][1]>> : k \in 1..Len(c.mapping_[i + 1]) } :
            i \in 0..(Len(c.mapping_) - 1) }

\* the positions stored in the index arrays of a warm cache
IndexPattern(c) ==
    Positions(MapMat(c.size_, Len(c.values_), c.outer_index_, c.inner_index_, c.values_))

\* C25: a step that calls get_matrix(true) on a cold cache (of size > 0)
\* leaves it warm, with a pattern, in mapping_ and in the index arrays, of
\* exactly the positions the running matrix and the pending triplets had at
\* the call, one slot for each, also when there is none; a step that calls
\* get_matrix(false) on a cold cache leaves it cold; a warm cache stays warm
\* with the same pattern through every call (add_value, prune, set_zero,
\* get_matrix); and add_value on a warm cache fails exactly when its position
\* is outside the pattern.
C25_PatternFrozen ==
    [][/\ (pc' = "get_matrix" /\ IsCold(cache["a"]) /\ mark'.call.compute_mapping) =>
             /\ cache["a"].size_ > 0
             /\ ~IsCold(cache'["a"])
             /\ MappingPattern(cache'["a"])
                = Positions(cache["a"].mat_) \cup PendingPositions(cache["a"].entries_)
             /\ IndexPattern(cache'["a"]) = MappingPattern(cache'["a"])
             /\ Len(cache'["a"].values_) = Cardinality(MappingPattern(cache'["a"]))
             /\ \A p \in MappingPattern(cache'["a"]) :
                   Cardinality(Slots(cache'["a"], p[1], p[2])) = 1
       /\ (pc' = "get_matrix" /\ IsCold(cache["a"]) /\ ~mark'.call.compute_mapping) =>
             IsCold(cache'["a"])
       /\ ~IsCold(cache["a"]) =>
             /\ ~IsCold(cache'["a"])
             /\ Structure(cache'["a"]) = Structure(cache["a"])
             /\ MappingPattern(cache'["a"]) = MappingPattern(cache["a"])
       /\ (pc' = "add_value" /\ ~IsCold(cache["a"])) =>
             (failed' <=> <<mark'.call.row, mark'.call.col>> \notin MappingPattern(cache["a"]))]_vars

\* on a warm cache of size 2 whose pattern is a single position, add_value
\* at another position failed after a set_zero()
C25_Witness ==
    /\ failed /\ pc = "add_value"
    /\ cache["a"].size_ = 2
    /\ ~IsCold(cache["a"])
    /\ mark.zeroed
    /\ Cardinality(MappingPattern(cache["a"])) = 1
    /\ <<mark.call.row, mark.call.col>> \notin MappingPattern(cache["a"])
    /\ cache["a"].entries_ = <<>>

(***************************************************************************)
(* Scenario SpecLife: a cache a and a second cache b, of any two sizes.    *)
(* b is filled and possibly made warm; then a is driven by any sequence of *)
(* add_value, prune, set_zero, get_matrix, init(size), init(b) and a += b. *)
(* pc tells whether the last call on a was init(b), get_matrix or another  *)
(* call; mark remembers, after a.init(b), the cache b passed to it and the *)
(* fact that no value has been added to a since.                           *)
(***************************************************************************)
\* largest number of add_value calls on a
MaxLifeAdds == 2

\* largest number of add_value calls on b
MaxOtherAdds == 1

\* largest number of a += b calls of a SpecLife run
MaxLifeMerges == 1

\* prune(): setFromTriplets fails Eigen's index assertion on a triplet
\* outside the size_ x size_ matrix (a triplet added before a change of size)
prune_ok(c) ==
    IsCold(c) =>
        \A k \in 1..Len(c.entries_) :
            /\ c.entries_[k].row \in 0..(c.size_ - 1)
            /\ c.entries_[k].col \in 0..(c.size_ - 1)

\* mat_ += o.mat_ on matrices of different sizes fails Eigen's size assertion
plus_eq_ok(c, o) ==
    /\ merge_ok(c, o)
    /\ (IsCold(c) \/ IsCold(o)) => c.mat_.rows = o.mat_.rows

InitLife ==
    /\ IdleNL
    /\ \E na \in Sizes, nb \in Sizes :
          cache = [id \in CacheIds |->
                     IF id = "b" THEN SpareMatrixCache(nb) ELSE SpareMatrixCache(na)]
    /\ failed = FALSE
    /\ ret = NoMatrix
    /\ pc = "none"
    /\ log = [id \in CacheIds |-> <<>>]
    /\ cursor = 0
    /\ snap = [id \in CacheIds |-> NoMatrix]
    /\ acc = [id \in CacheIds |-> NoSums]
    /\ cnt = [id \in CacheIds |-> 0]
    /\ mark = NoMark

\* b.add_value(i, j, 1) while b is cold and a is untouched; b's pattern is
\* assembled column by column, each position once
LifeOtherAdd ==
    /\ UNCHANGED nlVars
    /\ pc = "none"
    /\ IsCold(cache["b"])
    /\ cnt["b"] < MaxOtherAdds
    /\ \E i \in Idx("b"), j \in Idx("b") :
          /\ \A k \in 1..Len(cache["b"].entries_) :
                LET e == cache["b"].entries_[k]
                IN e.col < j \/ (e.col = j /\ e.row < i)
          /\ CallAddValue("b", i, j, 1)
    /\ cnt' = [cnt EXCEPT !["b"] = @ + 1]
    /\ UNCHANGED <<pc, log, cursor, snap, acc, mark>>

\* b.get_matrix(true) while b is cold and a is untouched: b becomes warm
LifeOtherWarm ==
    /\ UNCHANGED nlVars
    /\ pc = "none"
    /\ IsCold(cache["b"])
    /\ ~failed
    /\ cache' = [cache EXCEPT !["b"] = get_matrix(@, TRUE)]
    /\ UNCHANGED <<failed, ret, pc, log, cursor, snap, acc, cnt, mark>>

\* a.add_value(i, j, v)
LifeAddValue ==
    /\ UNCHANGED nlVars
    /\ cnt["a"] < MaxLifeAdds
    /\ \E i \in Idx("a"), j \in Idx("a") : CallAddValue("a", i, j, 2)
    /\ cnt' = [cnt EXCEPT !["a"] = @ + 1]
    /\ pc' = "call"
    /\ mark' = [mark EXCEPT !.zeroed = FALSE]
    /\ UNCHANGED <<log, cursor, snap, acc>>

\* a.prune()
LifePrune ==
    /\ UNCHANGED nlVars
    /\ IF prune_ok(cache["a"])
       THEN CallPrune("a")
       ELSE ~failed /\ failed' = TRUE /\ UNCHANGED <<cache, ret>>
    /\ pc' = "call"
    /\ UNCHANGED <<log, cursor, snap, acc, cnt, mark>>

\* a.set_zero()
LifeSetZero ==
    /\ UNCHANGED nlVars
    /\ CallSetZero("a")
    /\ pc' = "call"
    /\ UNCHANGED <<log, cursor, snap, acc, cnt, mark>>

\* a.get_matrix(compute_mapping)
LifeGetMatrix ==
    /\ UNCHANGED nlVars
    /\ IF prune_ok(cache["a"])
       THEN \E compute_mapping \in BOOLEAN : CallGetMatrix("a", compute_mapping)
       ELSE ~failed /\ failed' = TRUE /\ UNCHANGED <<cache, ret>>
    /\ pc' = "get_matrix"
    /\ UNCHANGED <<log, cursor, snap, acc, cnt, mark>>

\* a.get_matrix() aborting (empty pattern, checked containers)
LifeGetMatrixAbort ==
    /\ UNCHANGED nlVars
    /\ CallGetMatrixAbort("a")
    /\ pc' = "call"
    /\ UNCHANGED <<log, cursor, snap, acc, cnt, mark>>

\* a.init(size)
LifeInitSize ==
    /\ UNCHANGED nlVars
    /\ ~failed
    /\ \E size \in Sizes :
          IF init_size_ok(cache["a"], size)
          THEN cache' = [cache EXCEPT !["a"] = init_size(@, size)] /\ failed' = FALSE
          ELSE cache' = cache /\ failed' = TRUE
    /\ pc' = "call"
    /\ UNCHANGED <<ret, log, cursor, snap, acc, cnt, mark>>

\* a.init(b)
LifeInitOther ==
    /\ UNCHANGED nlVars
    /\ ~failed
    /\ cache' = [cache EXCEPT !["a"] = init_other(@, cache["b"])]
    /\ pc' = "init_other"
    /\ mark' = [zeroed |-> TRUE, before |-> NoMark.before, other |-> cache["b"]]
    /\ UNCHANGED <<failed, ret, log, cursor, snap, acc, cnt>>

\* a += b
LifePlusEq ==
    /\ UNCHANGED nlVars
    /\ ~failed
    /\ cursor < MaxLifeMerges
    /\ cursor' = cursor + 1
    /\ IF plus_eq_ok(cache["a"], cache["b"])
       THEN cache' = [cache EXCEPT !["a"] = plus_eq(@, cache["b"])] /\ failed' = FALSE
       ELSE cache' = cache /\ failed' = TRUE
    /\ pc' = "call"
    /\ mark' = [mark EXCEPT !.zeroed = FALSE]
    /\ UNCHANGED <<ret, log, snap, acc, cnt>>

NextLife ==
    \/ LifeOtherAdd
    \/ LifeOtherWarm
    \/ LifeAddValue
    \/ LifePrune
    \/ LifeSetZero
    \/ LifeGetMatrix
    \/ LifeGetMatrixAbort
    \/ LifeInitSize
    \/ LifeInitOther
    \/ LifePlusEq

SpecLife == InitLife /\ [][NextLife]_vars

\* C11: right after a.init(b), a has b's size, mapping and index arrays and b
\* is as it was; and a get_matrix() on a that follows a.init(b) with no value
\* added to a in between returns a matrix with no non-zero value, whatever a
\* held before (pending triplets, accumulated values) and whether b is cold
\* or warm.
C11_InitOtherClears ==
    /\ pc = "init_other" =>
          /\ cache["a"].size_ = cache["b"].size_
          /\ Structure(cache["a"]) = Structure(cache["b"])
          /\ cache["b"] = mark.other
    /\ (pc = "get_matrix" /\ mark.zeroed) => AllZero(ret)

\* C11, the part that holds of the code: a.init(b) copies b's size, mapping
\* and index arrays, zeroes the value buffer and the running matrix and
\* leaves b as it was.
C11_InitOtherCopiesStructure ==
    pc = "init_other" =>
        /\ cache["a"].size_ = cache["b"].size_
        /\ Structure(cache["a"]) = Structure(cache["b"])
        /\ cache["b"] = mark.other
        /\ AllZero([vals |-> cache["a"].values_])
        /\ Len(cache["a"].values_) = Len(cache["b"].values_)
        /\ nonZeros(cache["a"].mat_) = 0

\* C16: a step on a warm cache a that is not a.init(b) -- add_value, prune,
\* set_zero, get_matrix, init(size), a += b, completed or failed -- leaves
\* a's mapping and index arrays as they were, so a stays warm; a step that
\* changes them is an a.init(b) with b's structure different from a's.
C16_StructurePersists ==
    [][~IsCold(cache["a"]) =>
          /\ pc' # "init_other" =>
                (Structure(cache'["a"]) = Structure(cache["a"]) /\ ~IsCold(cache'["a"]))
          /\ Structure(cache'["a"]) # Structure(cache["a"]) =>
                (pc' = "init_other" /\ Structure(cache["b"]) # Structure(cache["a"]))]_vars

\* a warm cache with a non-empty pattern that has received two values and a
\* merge and has returned a matrix holding them
C16_Witness ==
    /\ pc = "get_matrix"
    /\ ~failed
    /\ ~IsCold(cache["a"])
    /\ Len(cache["a"].inner_index_) > 0
    /\ cursor = 1
    /\ cnt["a"] = 2
    /\ \E k \in 1..Len(ret.vals) : ret.vals[k] # 0

(***************************************************************************)
(* Scenario SpecWarm: a cache is filled while cold and made warm with      *)
(* get_matrix(true); then it goes through accumulation rounds: add_value   *)
(* at any row and column (also positions outside the cached pattern and a  *)
(* column past the last one), set_zero() and get_matrix().  pc is the name *)
(* of the last call; snap["a"] is the matrix the cold get_matrix(true)     *)
(* returned; acc["a"] holds the sums of the values added since the last    *)
(* get_matrix() or set_zero() and log["a"] those sums as they were when    *)
(* the last get_matrix() was called; cursor counts the get_matrix() calls  *)
(* (up to two); mark is the last add_value call and the value buffer it    *)
(* found.                                                                  *)
(***************************************************************************)
\* largest number of add_value calls on the cold cache
MaxPatternAdds == 2

\* largest number of add_value calls on the warm cache
MaxWarmAdds == 3

\* values passed to add_value on the warm cache
WarmVals == {-1, 2}

InitWarm ==
    /\ IdleNL
    /\ \E n \in Sizes : cache = [id \in CacheIds |-> SpareMatrixCache(n)]
    /\ failed = FALSE
    /\ ret = NoMatrix
    /\ pc = "cold"
    /\ log = [id \in CacheIds |-> NoSums]
    /\ cursor = 0
    /\ snap = [id \in CacheIds |-> NoMatrix]
    /\ acc = [id \in CacheIds |-> NoSums]
    /\ cnt = [id \in CacheIds |-> 0]
    /\ mark = [call |-> Triplet(0, 0, 0), values |-> <<>>]

\* a.add_value(i, j, 1) while a is cold; the pattern is assembled column by
\* column, each position once
WarmColdAdd ==
    /\ UNCHANGED nlVars
    /\ pc = "cold"
    /\ cnt["ref"] < MaxPatternAdds
    /\ \E i \in Idx("a"), j \in Idx("a") :
          /\ \A k \in 1..Len(cache["a"].entries_) :
                LET e == cache["a"].entries_[k]
                IN e.col < j \/ (e.col = j /\ e.row < i)
          /\ CallAddValue("a", i, j, 1)
    /\ cnt' = [cnt EXCEPT !["ref"] = @ + 1]
    /\ UNCHANGED <<pc, log, cursor, snap, acc, mark>>

\* a.get_matrix(true): a becomes warm
WarmComputeMapping ==
    /\ UNCHANGED nlVars
    /\ pc = "cold"
    /\ CallGetMatrix("a", TRUE)
    /\ pc' = "mapped"
    /\ snap' = [snap EXCEPT !["a"] = ret']
    /\ UNCHANGED <<log, cursor, acc, cnt, mark>>

\* a.add_value(i, j, v) on the warm cache
WarmAddValue ==
    /\ UNCHANGED nlVars
    /\ pc # "cold"
    /\ cnt["a"] < MaxWarmAdds
    /\ \E i \in Idx("a"), j \in 0..cache["a"].size_, v \in WarmVals :
          /\ CallAddValue("a", i, j, v)
          /\ mark' = [call |-> Triplet(i, j, v), values |-> cache["a"].values_]
          /\ acc' = IF j < cache["a"].size_ THEN Accumulate("a", i, j, v) ELSE acc
    /\ cnt' = [cnt EXCEPT !["a"] = @ + 1]
    /\ pc' = "add_value"
    /\ UNCHANGED <<log, cursor, snap>>

\* a.set_zero() on the warm cache
WarmSetZero ==
    /\ UNCHANGED nlVars
    /\ pc # "cold"
    /\ CallSetZero("a")
    /\ pc' = "set_zero"
    /\ acc' = [acc EXCEPT !["a"] = NoSums]
    /\ UNCHANGED <<log, cursor, snap, cnt, mark>>

\* a.get_matrix() on the warm cache
WarmGetMatrix ==
    /\ UNCHANGED nlVars
    /\ pc # "cold"
    /\ CallGetMatrix("a", FALSE)
    /\ pc' = "get_matrix"
    /\ log' = [log EXCEPT !["a"] = acc["a"]]
    /\ acc' = [acc EXCEPT !["a"] = NoSums]
    /\ cursor' = IF cursor < 2 THEN cursor + 1 ELSE cursor
    /\ UNCHANGED <<snap, cnt, mark>>

\* a.get_matrix() aborting (empty pattern, checked containers)
WarmGetMatrixAbort ==
    /\ UNCHANGED nlVars
    /\ pc # "cold"
    /\ CallGetMatrixAbort("a")
    /\ pc' = "abort"
    /\ UNCHANGED <<log, cursor, snap, acc, cnt, mark>>

NextWarm ==
    \/ WarmColdAdd
    \/ WarmComputeMapping
    \/ WarmAddValue
    \/ WarmSetZero
    \/ WarmGetMatrix
    \/ WarmGetMatrixAbort

SpecWarm == InitWarm /\ [][NextWarm]_vars

\* C12: a get_matrix() on the warm cache returns the matrix with the
\* structure cached by get_matrix(true) (same index arrays) that holds at
\* every cached position the sum of the values passed to add_value for that
\* position since the previous get_matrix() or set_zero() -- zero at every
\* position when nothing was added -- and leaves the value buffer all zero.
C12_WarmRoundSums ==
    pc = "get_matrix" =>
        /\ ~failed
        /\ ret = Compressed(cache["a"].size_, Positions(snap["a"]), log["a"])
        /\ ret.outer = snap["a"].outer /\ ret.inner = snap["a"].inner
        /\ cache["a"].values_ = [k \in 1..nonZeros(snap["a"]) |-> 0]

\* the second get_matrix() of a run returned a matrix that holds the values
\* added in its round only: a position added to in the first round is zero,
\* another one holds 2 - 1
C12_Witness ==
    /\ pc = "get_matrix"
    /\ cursor = 2
    /\ cnt["a"] = 3
    /\ nonZeros(ret) = 2
    /\ \E k \in 1..Len(ret.vals) : ret.vals[k] = 0
    /\ \E k \in 1..Len(ret.vals) : ret.vals[k] = 1

\* C13: an add_value(row, col, v) on the warm cache, row within range: when
\* (row, col) is not a position of the cached pattern the call fails its
\* assertion and no slot of the value buffer has changed; when it is, the
\* call does not fail and exactly one slot has grown by v, the others are
\* as they were.
C13_WarmAddValue ==
    pc = "add_value" =>
        LET e == mark.call
            values == cache["a"].values_
        IN IF <<e.row, e.col>> \in Positions(snap["a"])
           THEN /\ ~failed
                /\ Len(values) = Len(mark.values)
                /\ \E k \in 1..Len(values) :
                      /\ values[k] = mark.values[k] + e.value
                      /\ \A m \in (1..Len(values)) \ {k} : values[m] = mark.values[m]
           ELSE /\ failed
                /\ values = mark.values

\* an add_value at a position inside the matrix but outside the cached
\* pattern failed, on a cache whose value buffer held an accumulated value
C13_Witness ==
    /\ pc = "add_value"
    /\ failed
    /\ mark.call.col < cache["a"].size_
    /\ <<mark.call.row, mark.call.col>> \notin Positions(snap["a"])
    /\ nonZeros(snap["a"]) = 2
    /\ \E k \in 1..Len(mark.values) : mark.values[k] # 0
    /\ cache["a"].values_ = mark.values

(***************************************************************************)
(* Scenario SpecFallback: two caches a and b of the same size are filled   *)
(* independently; each may be pruned and may be made warm on its own       *)
(* pattern with get_matrix(true) and filled again; then a += b or          *)
(* out = a + b is formed and get_matrix() is called on the result.         *)
(* acc[id] holds the sums of the values added to cache id since it was     *)
(* constructed or made warm, cnt[id] the number of add_value calls of its  *)
(* current phase; mark is the structure of the two operands at the merge.  *)
(***************************************************************************)
\* largest number of add_value calls on a cache in each of its phases
MaxFallbackAdds == 2

\* the value added to cache id (different for the two caches)
FallbackVal(id) == IF id = "a" THEN 2 ELSE 1

InitFallback ==
    /\ IdleNL
    /\ \E n \in Sizes : cache = [id \in CacheIds |-> SpareMatrixCache(n)]
    /\ failed = FALSE
    /\ ret = NoMatrix
    /\ pc = "fill"
    /\ log = [id \in CacheIds |-> <<>>]
    /\ cursor = 0
    /\ snap = [id \in CacheIds |-> NoMatrix]
    /\ acc = [id \in CacheIds |-> NoSums]
    /\ cnt = [id \in CacheIds |-> 0]
    /\ mark = [left |-> Structure(SpareMatrixCache(0)), right |-> Structure(SpareMatrixCache(0))]

\* id.add_value(i, j, v): on a cold cache column by column, each position
\* once; on a warm cache at any position of its pattern
FallbackAdd ==
    /\ UNCHANGED nlVars
    /\ pc = "fill"
    /\ \E id \in {"a", "b"} :
          /\ cnt[id] < MaxFallbackAdds
          /\ \E i \in Idx(id), j \in Idx(id) :
                /\ IF IsCold(cache[id])
                   THEN /\ \A k \in 1..Len(cache[id].entries_) :
                              LET e == cache[id].entries_[k]
                              IN e.col < j \/ (e.col = j /\ e.row < i)
                        /\ <<i, j>> \notin Positions(cache[id].mat_)
                   ELSE add_value_ok(cache[id], i, j)
                /\ CallAddValue(id, i, j, FallbackVal(id))
                /\ acc' = Accumulate(id, i, j, FallbackVal(id))
          /\ cnt' = [cnt EXCEPT ![id] = @ + 1]
    /\ UNCHANGED <<pc, log, cursor, snap, mark>>

\* id.prune() on a cold cache holding pending triplets
FallbackPrune ==
    /\ UNCHANGED nlVars
    /\ pc = "fill"
    /\ \E id \in {"a", "b"} :
          /\ IsCold(cache[id])
          /\ cache[id].entries_ # <<>>
          /\ CallPrune(id)
    /\ UNCHANGED <<pc, log, cursor, snap, acc, cnt, mark>>

\* id.get_matrix(true) on a cold cache: it becomes warm, its content is
\* handed out and a new accumulation round starts
FallbackWarm ==
    /\ UNCHANGED nlVars
    /\ pc = "fill"
    /\ \E id \in {"a", "b"} :
          /\ IsCold(cache[id])
          /\ CallGetMatrix(id, TRUE)
          /\ acc' = [acc EXCEPT ![id] = NoSums]
          /\ cnt' = [cnt EXCEPT ![id] = 0]
    /\ UNCHANGED <<pc, log, cursor, snap, mark>>

\* a += b
FallbackPlusEq ==
    /\ UNCHANGED nlVars
    /\ pc = "fill"
    /\ ~failed
    /\ IF merge_ok(cache["a"], cache["b"])
       THEN cache' = [cache EXCEPT !["a"] = plus_eq(@, cache["b"])] /\ failed' = FALSE
       ELSE cache' = cache /\ failed' = TRUE
    /\ mark' = [left |-> Structure(cache["a"]), right |-> Structure(cache["b"])]
    /\ pc' = "merged_eq"
    /\ UNCHANGED <<ret, log, cursor, snap, acc, cnt>>

\* out = a + b
FallbackPlus ==
    /\ UNCHANGED nlVars
    /\ pc = "fill"
    /\ ~failed
    /\ IF merge_ok(cache["a"], cache["b"])
       THEN cache' = [cache EXCEPT !["out"] = plus(cache["a"], cache["b"])] /\ failed' = FALSE
       ELSE cache' = cache /\ failed' = TRUE
    /\ mark' = [left |-> Structure(cache["a"]), right |-> Structure(cache["b"])]
    /\ pc' = "merged_plus"
    /\ UNCHANGED <<ret, log, cursor, snap, acc, cnt>>

\* get_matrix() on the merged cache
FallbackGetMatrix ==
    /\ UNCHANGED nlVars
    /\ \/ pc = "merged_eq" /\ CallGetMatrix("a", FALSE) /\ pc' = "done_eq"
       \/ pc = "merged_plus" /\ CallGetMatrix("out", FALSE) /\ pc' = "done_plus"
    /\ UNCHANGED <<log, cursor, snap, acc, cnt, mark>>

\* get_matrix() on the merged cache aborting (empty pattern, checked containers)
FallbackGetMatrixAbort ==
    /\ UNCHANGED nlVars
    /\ \/ pc = "merged_eq" /\ CallGetMatrixAbort("a")
       \/ pc = "merged_plus" /\ CallGetMatrixAbort("out")
    /\ UNCHANGED <<pc, log, cursor, snap, acc, cnt, mark>>

NextFallback ==
    \/ FallbackAdd
    \/ FallbackPrune
    \/ FallbackWarm
    \/ FallbackPlusEq
    \/ FallbackPlus
    \/ FallbackGetMatrix
    \/ FallbackGetMatrixAbort

SpecFallback == InitFallback /\ [][NextFallback]_vars

\* both operands of the merge were warm
MergedWarm == mark.left.mapping_ # <<>> /\ mark.right.mapping_ # <<>>

\* C14: a merge (a += b or a + b) of two warm caches whose cached structures
\* differ fails an assertion: no such merge completes, also when the two
\* patterns have the same size and the same number of non-zeros.
C14_MismatchedMergeFails ==
    (/\ pc \in {"merged_eq", "merged_plus", "done_eq", "done_plus"}
     /\ MergedWarm
     /\ mark.left # mark.right)
    => failed

\* C14, the part that holds of the code: a merge of two warm caches whose
\* patterns differ in the number of non-zeros fails an assertion.
C14_DifferentCountMergeFails ==
    (/\ pc \in {"merged_eq", "merged_plus", "done_eq", "done_plus"}
     /\ MergedWarm
     /\ Len(mark.left.inner_index_) # Len(mark.right.inner_index_))
    => failed

\* C15: when at least one operand of the merge was cold, get_matrix() on the
\* merged cache returned, and holds at every position the sum of the values
\* added to a and of the values added to b (pruned or still pending).
C15_FallbackMergeIsSum ==
    (pc \in {"done_eq", "done_plus"} /\ ~MergedWarm) =>
        /\ ~failed
        /\ \A p \in (0..(ret.rows - 1)) \X (0..(ret.cols - 1)) :
              Coeff(ret, p[1], p[2]) = acc["a"][p] + acc["b"][p]

\* C15, the part that holds of the code: a += b of two cold caches whose
\* pending triplets have been pruned gives the sum.
C15_PrunedColdMergeIsSum ==
    (/\ pc = "done_eq"
     /\ mark.left.mapping_ = <<>> /\ mark.right.mapping_ = <<>>
     /\ cache["b"].entries_ = <<>>)
    => /\ ~failed
       /\ \A p \in (0..(ret.rows - 1)) \X (0..(ret.cols - 1)) :
              Coeff(ret, p[1], p[2]) = acc["a"][p] + acc["b"][p]

====
